---------------------------- MODULE Spec2Model ----------------------------
(***************************************************************************)
(* Natural-language query resolution engine of the BMW sales agent:        *)
(* NaturalLanguageSQLAgent (src/src/agents/mcp_agent.py).                  *)
(*                                                                         *)
(* Python strings are sequences of one-character strings, so that          *)
(* lower(), strip(), `word in query` and re.search act on characters.      *)
(* Offsets are 0-based as in Python; q[p+1] is the character at offset p.  *)
(* Python floats are IEEE-754 binary64 values, held exactly (see FDiv).    *)
(***************************************************************************)
EXTENDS Integers, Sequences, FiniteSets, TLC

(***************************************************************************)
(* Python values                                                           *)
(***************************************************************************)
\* None where the code holds an Optional[str] (a SQL string or None).
None == "None"

\* None where the code holds an Optional[Dict] (best_match / matched_query).
NoMatch == [none |-> TRUE]

Max(a, b) == IF a >= b THEN a ELSE b

(***************************************************************************)
(* str.lower() and str.strip()                                             *)
(***************************************************************************)
UpperChars == <<"A","B","C","D","E","F","G","H","I","J","K","L","M","N","O","P","Q","R","S","T","U","V","W","X","Y","Z","Á","Â","Ã","Ç","É","Ê","Í","Ó","Õ","Ú">>

LowerChars == <<"a","b","c","d","e","f","g","h","i","j","k","l","m","n","o","p","q","r","s","t","u","v","w","x","y","z","á","â","ã","ç","é","ê","í","ó","õ","ú">>

LowerChar(c) ==
    IF \E i \in 1..Len(UpperChars) : UpperChars[i] = c
    THEN LowerChars[CHOOSE i \in 1..Len(UpperChars) : UpperChars[i] = c]
    ELSE c

\* query.lower()
Lower(s) == [i \in 1..Len(s) |-> LowerChar(s[i])]

Whitespace == {" ", "\t", "\n", "\r", "\f"}

\* No character is dropped.
Strip_Nothing(s) == s

\* query.strip(): drops the leading and the trailing whitespace characters.
Strip(s) ==
    IF \A i \in 1..Len(s) : s[i] \in Whitespace
    THEN <<>>
    ELSE LET first == CHOOSE i \in 1..Len(s) :
                          s[i] \notin Whitespace /\ \A j \in 1..(i-1) : s[j] \in Whitespace
             last  == CHOOSE i \in 1..Len(s) :
                          s[i] \notin Whitespace /\ \A j \in (i+1)..Len(s) : s[j] \in Whitespace
         IN  SubSeq(s, first, last)

(***************************************************************************)
(* Substring tests: `word in query` and any(word in query for word in [..])*)
(***************************************************************************)
OccursAt(q, w, p) == p + Len(w) <= Len(q) /\ SubSeq(q, p + 1, p + Len(w)) = w

Contains(q, w) == \E p \in 0..(Len(q) - Len(w)) : OccursAt(q, w, p)

AnyIn(q, words) == \E i \in 1..Len(words) : Contains(q, words[i])

(***************************************************************************)
(* re.search(pattern, query).  Every pattern of query_patterns is a chain  *)
(* of groups joined by `.*`; a group is an alternation of literals (a      *)
(* character class [aã] is written out as its alternatives).  A pattern is *)
(* a sequence of groups, a group a sequence of literals.  The search is    *)
(* the backtracking search of the re module: the leftmost start; in a      *)
(* group the first alternative, in order, that lets the rest match; `.*`   *)
(* greedy, giving characters back one at a time, and never crossing a      *)
(* newline.                                                                *)
(***************************************************************************)
NoHit == [none |-> TRUE]

\* Offset of the first newline at or after offset p, Len(q) when there is none.
LineEnd(q, p) ==
    IF \E k \in (p+1)..Len(q) : q[k] = "\n"
    THEN (CHOOSE k \in (p+1)..Len(q) : q[k] = "\n" /\ \A j \in (p+1)..(k-1) : q[j] # "\n") - 1
    ELSE Len(q)

MinOf(S) == CHOOSE x \in S : \A y \in S : x <= y

MaxOf(S) == CHOOSE x \in S : \A y \in S : y <= x

RECURSIVE AltFrom(_, _, _, _, _), GreedyFrom(_, _, _, _, _)
\* Group i of pat anchored at offset p, trying its alternatives j, j+1, ...:
\* the end offset of the whole match, or -1.
AltFrom(q, pat, i, j, p) ==
    IF j > Len(pat[i]) THEN -1
    ELSE LET w == pat[i][j]
             r == IF ~OccursAt(q, w, p) THEN -1
                  ELSE IF i = Len(pat) THEN p + Len(w)
                  ELSE GreedyFrom(q, pat, i + 1, p + Len(w), LineEnd(q, p + Len(w)))
         IN  IF r # -1 THEN r ELSE AltFrom(q, pat, i, j + 1, p)

\* `.*` before group i: it takes the characters up to offset hi and gives them
\* back one at a time down to offset lo, so group i matches at the rightmost
\* offset from which the rest of the pattern matches.
GreedyFrom(q, pat, i, lo, hi) ==
    LET ps == { p \in lo..hi : AltFrom(q, pat, i, 1, p) # -1 }
    IN  IF ps = {} THEN -1 ELSE AltFrom(q, pat, i, 1, MaxOf(ps))

\* match = re.search(pattern, query): the match at the leftmost offset that
\* has one; match.start() and match.end().
re_search(pattern, query) ==
    LET ss == { s \in 0..Len(query) : AltFrom(query, pattern, 1, 1, s) # -1 }
    IN  IF ss = {} THEN NoHit
        ELSE [start |-> MinOf(ss), end |-> AltFrom(query, pattern, 1, 1, MinOf(ss))]

(***************************************************************************)
(* Float arithmetic.  A float x with 2^-8 <= x <= 2 (or x = 0) is the      *)
(* integer x * 2^60, written in three limbs <<x2, x1, x0>> of 20 bits:     *)
(* x * 2^60 = x2 * 2^40 + x1 * 2^20 + x0.  Every operation computes the    *)
(* exact result and rounds it to 53 significant bits, ties to even, which  *)
(* is what the binary64 operation does.  The quotients n / d of the        *)
(* confidence score have 1 <= n <= d <= 256, which keeps every value in    *)
(* range.                                                                  *)
(***************************************************************************)
Limb == 2^20

F0 == <<0, 0, 0>>

F1 == <<Limb, 0, 0>>

\* Carries propagated upwards; every limb is >= 0 on entry.
Norm(x2, x1, x0) ==
    LET c0 == x0 \div Limb
        y1 == x1 + c0
        c1 == y1 \div Limb
    IN  <<x2 + c1, y1 % Limb, x0 % Limb>>

RECURSIVE Pow2Floor(_)
Pow2Floor(n) == IF n < 2 THEN 1 ELSE 2 * Pow2Floor(n \div 2)

\* Unit in the last place of x: 2^(e-52) for 2^e <= x < 2^(e+1), in units of 2^-60.
Ulp(x) == Pow2Floor(x[1]) \div 2^12

\* The float nearest to x + sn/sd (in units of 2^-60, 0 <= sn/sd < 1), ties to even.
Round(x, sn, sd) ==
    LET u   == Ulp(x)
        rem == x[3] % u
        lhs == 2 * rem * sd + 2 * sn
        rhs == u * sd
        odd == (x[3] \div u) % 2 = 1
        up  == lhs > rhs \/ (lhs = rhs /\ odd)
    IN  Norm(x[1], x[2], x[3] - rem + (IF up THEN u ELSE 0))

\* n / d for integers 0 <= n <= d, d >= 1 (Python's true division).
FDiv(n, d) ==
    IF n = 0 THEN F0
    ELSE LET q2 == (n * Limb) \div d
             r2 == (n * Limb) % d
             q1 == (r2 * Limb) \div d
             r1 == (r2 * Limb) % d
             q0 == (r1 * Limb) \div d
             r0 == (r1 * Limb) % d
         IN  Round(<<q2, q1, q0>>, r0, d)

\* a + b
FAdd(a, b) ==
    IF a = F0 THEN b
    ELSE IF b = F0 THEN a
    ELSE Round(Norm(a[1] + b[1], a[2] + b[2], a[3] + b[3]), 0, 1)

FGt(a, b) ==
    \/ a[1] > b[1]
    \/ a[1] = b[1] /\ a[2] > b[2]
    \/ a[1] = b[1] /\ a[2] = b[2] /\ a[3] > b[3]

FGe(a, b) == a = b \/ FGt(a, b)

\* The limbs of a - b for a >= b, exactly.
LimbSub(a, b) ==
    LET w0 == IF a[3] >= b[3] THEN 0 ELSE 1
        x0 == a[3] + w0 * Limb - b[3]
        w1 == IF a[2] - w0 >= b[2] THEN 0 ELSE 1
        x1 == a[2] - w0 + w1 * Limb - b[2]
        x2 == a[1] - w1 - b[1]
    IN  <<x2, x1, x0>>

\* a - b for a >= b
FSub(a, b) ==
    LET x == LimbSub(a, b)
    IN  IF x = F0 THEN F0 ELSE Round(x, 0, 1)

\* a / 2 (exact: the last bit of a in these units is 0)
FHalf(a) ==
    << a[1] \div 2,
       (a[2] + (a[1] % 2) * Limb) \div 2,
       (a[3] + (a[2] % 2) * Limb) \div 2 >>

\* The literal 0.3: 0x3FD3333333333333 = 5404319552844595 * 2^-54.
F0_3 == <<314572, 838860, 838848>>

\* The literal 0.7: 0x3FE6666666666666 = 6305039478318694 * 2^-53.
F0_7 == <<734003, 209715, 209664>>

(***************************************************************************)
(* self.query_patterns: the categories in the order of the dict literal,   *)
(* each with its patterns in order.                                        *)
(***************************************************************************)
QueryPatterns == <<
    [type |-> "dashboard", patterns |-> <<
        \* r'(dashboard|resumo|overview|visão geral|painel|painel executivo)'
        <<<<<<"d","a","s","h","b","o","a","r","d">>, <<"r","e","s","u","m","o">>, <<"o","v","e","r","v","i","e","w">>, <<"v","i","s","ã","o"," ","g","e","r","a","l">>, <<"p","a","i","n","e","l">>, <<"p","a","i","n","e","l"," ","e","x","e","c","u","t","i","v","o">>>>>>,
        \* r'(mostre|exiba|apresente).*(dashboard|resumo|overview)'
        <<<<<<"m","o","s","t","r","e">>, <<"e","x","i","b","a">>, <<"a","p","r","e","s","e","n","t","e">>>>, <<<<"d","a","s","h","b","o","a","r","d">>, <<"r","e","s","u","m","o">>, <<"o","v","e","r","v","i","e","w">>>>>>,
        \* r'(kpis|indicadores|métricas).*(principais|gerais)'
        <<<<<<"k","p","i","s">>, <<"i","n","d","i","c","a","d","o","r","e","s">>, <<"m","é","t","r","i","c","a","s">>>>, <<<<"p","r","i","n","c","i","p","a","i","s">>, <<"g","e","r","a","i","s">>>>>>
    >>],
    [type |-> "top_regions", patterns |-> <<
        \* r'(top|melhores|principais).*(regiões|região|regions)'
        <<<<<<"t","o","p">>, <<"m","e","l","h","o","r","e","s">>, <<"p","r","i","n","c","i","p","a","i","s">>>>, <<<<"r","e","g","i","õ","e","s">>, <<"r","e","g","i","ã","o">>, <<"r","e","g","i","o","n","s">>>>>>,
        \* r'(quais|mostre|exiba).*(top|melhores).*(regiões|região)'
        <<<<<<"q","u","a","i","s">>, <<"m","o","s","t","r","e">>, <<"e","x","i","b","a">>>>, <<<<"t","o","p">>, <<"m","e","l","h","o","r","e","s">>>>, <<<<"r","e","g","i","õ","e","s">>, <<"r","e","g","i","ã","o">>>>>>,
        \* r'(regiões|região).*(com mais|com maior).*(vendas|performance)'
        <<<<<<"r","e","g","i","õ","e","s">>, <<"r","e","g","i","ã","o">>>>, <<<<"c","o","m"," ","m","a","i","s">>, <<"c","o","m"," ","m","a","i","o","r">>>>, <<<<"v","e","n","d","a","s">>, <<"p","e","r","f","o","r","m","a","n","c","e">>>>>>,
        \* r'(ranking|classificação).*(regiões|região)'
        <<<<<<"r","a","n","k","i","n","g">>, <<"c","l","a","s","s","i","f","i","c","a","ç","ã","o">>>>, <<<<"r","e","g","i","õ","e","s">>, <<"r","e","g","i","ã","o">>>>>>,
        \* r'(top 5|top5|cinco melhores).*(regiões|região)'
        <<<<<<"t","o","p"," ","5">>, <<"t","o","p","5">>, <<"c","i","n","c","o"," ","m","e","l","h","o","r","e","s">>>>, <<<<"r","e","g","i","õ","e","s">>, <<"r","e","g","i","ã","o">>>>>>,
        \* r'(quais).*(são|sao).*(as).*(top).*5.*(regiões|região)'
        <<<<<<"q","u","a","i","s">>>>, <<<<"s","ã","o">>, <<"s","a","o">>>>, <<<<"a","s">>>>, <<<<"t","o","p">>>>, <<<<"5">>>>, <<<<"r","e","g","i","õ","e","s">>, <<"r","e","g","i","ã","o">>>>>>,
        \* r'(quais).*(são|sao).*(as).*(top 5).*(regiões|região)'
        <<<<<<"q","u","a","i","s">>>>, <<<<"s","ã","o">>, <<"s","a","o">>>>, <<<<"a","s">>>>, <<<<"t","o","p"," ","5">>>>, <<<<"r","e","g","i","õ","e","s">>, <<"r","e","g","i","ã","o">>>>>>,
        \* r'(quais).*(são|sao).*(top 5).*(regiões|região)'
        <<<<<<"q","u","a","i","s">>>>, <<<<"s","ã","o">>, <<"s","a","o">>>>, <<<<"t","o","p"," ","5">>>>, <<<<"r","e","g","i","õ","e","s">>, <<"r","e","g","i","ã","o">>>>>>
    >>],
    [type |-> "regional_performance", patterns |-> <<
        \* r'(performance|desempenho).*(por|da|das).*(regi[aã]o|regi[oõ]es)'
        <<<<<<"p","e","r","f","o","r","m","a","n","c","e">>, <<"d","e","s","e","m","p","e","n","h","o">>>>, <<<<"p","o","r">>, <<"d","a">>, <<"d","a","s">>>>, <<<<"r","e","g","i","a","o">>, <<"r","e","g","i","ã","o">>, <<"r","e","g","i","o","e","s">>, <<"r","e","g","i","õ","e","s">>>>>>,
        \* r'(vendas|resultados).*(por|da|das).*(regi[aã]o|regi[oõ]es)'
        <<<<<<"v","e","n","d","a","s">>, <<"r","e","s","u","l","t","a","d","o","s">>>>, <<<<"p","o","r">>, <<"d","a">>, <<"d","a","s">>>>, <<<<"r","e","g","i","a","o">>, <<"r","e","g","i","ã","o">>, <<"r","e","g","i","o","e","s">>, <<"r","e","g","i","õ","e","s">>>>>>,
        \* r'(an[aá]lise|comparativo).*(regi[oõ]es|regi[aã]o)'
        <<<<<<"a","n","a","l","i","s","e">>, <<"a","n","á","l","i","s","e">>, <<"c","o","m","p","a","r","a","t","i","v","o">>>>, <<<<"r","e","g","i","o","e","s">>, <<"r","e","g","i","õ","e","s">>, <<"r","e","g","i","a","o">>, <<"r","e","g","i","ã","o">>>>>>,
        \* r'(regi[aã]o|regi[oõ]es).*(performance|desempenho|vendas)'
        <<<<<<"r","e","g","i","a","o">>, <<"r","e","g","i","ã","o">>, <<"r","e","g","i","o","e","s">>, <<"r","e","g","i","õ","e","s">>>>, <<<<"p","e","r","f","o","r","m","a","n","c","e">>, <<"d","e","s","e","m","p","e","n","h","o">>, <<"v","e","n","d","a","s">>>>>>,
        \* r'(qual|quais).*(performance|desempenho).*(por|da|das).*(regi[aã]o|regi[oõ]es)'
        <<<<<<"q","u","a","l">>, <<"q","u","a","i","s">>>>, <<<<"p","e","r","f","o","r","m","a","n","c","e">>, <<"d","e","s","e","m","p","e","n","h","o">>>>, <<<<"p","o","r">>, <<"d","a">>, <<"d","a","s">>>>, <<<<"r","e","g","i","a","o">>, <<"r","e","g","i","ã","o">>, <<"r","e","g","i","o","e","s">>, <<"r","e","g","i","õ","e","s">>>>>>,
        \* r'(mostre|exiba).*(performance|desempenho).*(por|da|das).*(regi[aã]o|regi[oõ]es)'
        <<<<<<"m","o","s","t","r","e">>, <<"e","x","i","b","a">>>>, <<<<"p","e","r","f","o","r","m","a","n","c","e">>, <<"d","e","s","e","m","p","e","n","h","o">>>>, <<<<"p","o","r">>, <<"d","a">>, <<"d","a","s">>>>, <<<<"r","e","g","i","a","o">>, <<"r","e","g","i","ã","o">>, <<"r","e","g","i","o","e","s">>, <<"r","e","g","i","õ","e","s">>>>>>
    >>],
    [type |-> "top_models", patterns |-> <<
        \* r'(top|melhores|principais).*(modelos|modelo|models)'
        <<<<<<"t","o","p">>, <<"m","e","l","h","o","r","e","s">>, <<"p","r","i","n","c","i","p","a","i","s">>>>, <<<<"m","o","d","e","l","o","s">>, <<"m","o","d","e","l","o">>, <<"m","o","d","e","l","s">>>>>>,
        \* r'(quais|mostre|exiba).*(top|melhores).*(modelos|modelo)'
        <<<<<<"q","u","a","i","s">>, <<"m","o","s","t","r","e">>, <<"e","x","i","b","a">>>>, <<<<"t","o","p">>, <<"m","e","l","h","o","r","e","s">>>>, <<<<"m","o","d","e","l","o","s">>, <<"m","o","d","e","l","o">>>>>>,
        \* r'(modelos|modelo).*(com mais|com maior).*(vendas|performance)'
        <<<<<<"m","o","d","e","l","o","s">>, <<"m","o","d","e","l","o">>>>, <<<<"c","o","m"," ","m","a","i","s">>, <<"c","o","m"," ","m","a","i","o","r">>>>, <<<<"v","e","n","d","a","s">>, <<"p","e","r","f","o","r","m","a","n","c","e">>>>>>,
        \* r'(ranking|classificação).*(modelos|modelo)'
        <<<<<<"r","a","n","k","i","n","g">>, <<"c","l","a","s","s","i","f","i","c","a","ç","ã","o">>>>, <<<<"m","o","d","e","l","o","s">>, <<"m","o","d","e","l","o">>>>>>,
        \* r'(top 10|top10|dez melhores).*(modelos|modelo)'
        <<<<<<"t","o","p"," ","1","0">>, <<"t","o","p","1","0">>, <<"d","e","z"," ","m","e","l","h","o","r","e","s">>>>, <<<<"m","o","d","e","l","o","s">>, <<"m","o","d","e","l","o">>>>>>,
        \* r'(quais).*(são|sao).*(os).*(top|melhores).*(modelos|modelo)'
        <<<<<<"q","u","a","i","s">>>>, <<<<"s","ã","o">>, <<"s","a","o">>>>, <<<<"o","s">>>>, <<<<"t","o","p">>, <<"m","e","l","h","o","r","e","s">>>>, <<<<"m","o","d","e","l","o","s">>, <<"m","o","d","e","l","o">>>>>>
    >>],
    [type |-> "model_performance", patterns |-> <<
        \* r'(performance|desempenho).*(por|do|dos).*(modelo|modelos)'
        <<<<<<"p","e","r","f","o","r","m","a","n","c","e">>, <<"d","e","s","e","m","p","e","n","h","o">>>>, <<<<"p","o","r">>, <<"d","o">>, <<"d","o","s">>>>, <<<<"m","o","d","e","l","o">>, <<"m","o","d","e","l","o","s">>>>>>,
        \* r'(vendas|resultados).*(por|do|dos).*(modelo|modelos)'
        <<<<<<"v","e","n","d","a","s">>, <<"r","e","s","u","l","t","a","d","o","s">>>>, <<<<"p","o","r">>, <<"d","o">>, <<"d","o","s">>>>, <<<<"m","o","d","e","l","o">>, <<"m","o","d","e","l","o","s">>>>>>,
        \* r'(análise|comparativo).*(modelos|modelo)'
        <<<<<<"a","n","á","l","i","s","e">>, <<"c","o","m","p","a","r","a","t","i","v","o">>>>, <<<<"m","o","d","e","l","o","s">>, <<"m","o","d","e","l","o">>>>>>,
        \* r'(modelo|modelos).*(performance|desempenho|vendas)'
        <<<<<<"m","o","d","e","l","o">>, <<"m","o","d","e","l","o","s">>>>, <<<<"p","e","r","f","o","r","m","a","n","c","e">>, <<"d","e","s","e","m","p","e","n","h","o">>, <<"v","e","n","d","a","s">>>>>>,
        \* r'(total|soma).*(vendas|receita).*(por|do|dos).*(modelo|modelos)'
        <<<<<<"t","o","t","a","l">>, <<"s","o","m","a">>>>, <<<<"v","e","n","d","a","s">>, <<"r","e","c","e","i","t","a">>>>, <<<<"p","o","r">>, <<"d","o">>, <<"d","o","s">>>>, <<<<"m","o","d","e","l","o">>, <<"m","o","d","e","l","o","s">>>>>>,
        \* r'(modelo|modelos).*(total|soma).*(vendas|receita)'
        <<<<<<"m","o","d","e","l","o">>, <<"m","o","d","e","l","o","s">>>>, <<<<"t","o","t","a","l">>, <<"s","o","m","a">>>>, <<<<"v","e","n","d","a","s">>, <<"r","e","c","e","i","t","a">>>>>>,
        \* r'(mostre|exiba).*(total|soma).*(vendas|receita).*(por|do|dos).*(modelo|modelos)'
        <<<<<<"m","o","s","t","r","e">>, <<"e","x","i","b","a">>>>, <<<<"t","o","t","a","l">>, <<"s","o","m","a">>>>, <<<<"v","e","n","d","a","s">>, <<"r","e","c","e","i","t","a">>>>, <<<<"p","o","r">>, <<"d","o">>, <<"d","o","s">>>>, <<<<"m","o","d","e","l","o">>, <<"m","o","d","e","l","o","s">>>>>>,
        \* r'(receita|faturamento).*(por|do|dos).*(modelo|modelos)'
        <<<<<<"r","e","c","e","i","t","a">>, <<"f","a","t","u","r","a","m","e","n","t","o">>>>, <<<<"p","o","r">>, <<"d","o">>, <<"d","o","s">>>>, <<<<"m","o","d","e","l","o">>, <<"m","o","d","e","l","o","s">>>>>>
    >>],
    [type |-> "annual_sales", patterns |-> <<
        \* r'(vendas|sales).*(anuais|anual|por ano|by year)'
        <<<<<<"v","e","n","d","a","s">>, <<"s","a","l","e","s">>>>, <<<<"a","n","u","a","i","s">>, <<"a","n","u","a","l">>, <<"p","o","r"," ","a","n","o">>, <<"b","y"," ","y","e","a","r">>>>>>,
        \* r'(mostre|exiba|apresente).*(vendas|sales).*(anuais|anual)'
        <<<<<<"m","o","s","t","r","e">>, <<"e","x","i","b","a">>, <<"a","p","r","e","s","e","n","t","e">>>>, <<<<"v","e","n","d","a","s">>, <<"s","a","l","e","s">>>>, <<<<"a","n","u","a","i","s">>, <<"a","n","u","a","l">>>>>>,
        \* r'(resumo|agregado).*(anual|por ano)'
        <<<<<<"r","e","s","u","m","o">>, <<"a","g","r","e","g","a","d","o">>>>, <<<<"a","n","u","a","l">>, <<"p","o","r"," ","a","n","o">>>>>>,
        \* r'(evolução|histórico).*(anual|por ano)'
        <<<<<<"e","v","o","l","u","ç","ã","o">>, <<"h","i","s","t","ó","r","i","c","o">>>>, <<<<"a","n","u","a","l">>, <<"p","o","r"," ","a","n","o">>>>>>
    >>],
    [type |-> "annual_growth", patterns |-> <<
        \* r'(crescimento|growth|evolução).*(anual|por ano)'
        <<<<<<"c","r","e","s","c","i","m","e","n","t","o">>, <<"g","r","o","w","t","h">>, <<"e","v","o","l","u","ç","ã","o">>>>, <<<<"a","n","u","a","l">>, <<"p","o","r"," ","a","n","o">>>>>>,
        \* r'(mostre|exiba).*(crescimento|growth).*(anual|por ano)'
        <<<<<<"m","o","s","t","r","e">>, <<"e","x","i","b","a">>>>, <<<<"c","r","e","s","c","i","m","e","n","t","o">>, <<"g","r","o","w","t","h">>>>, <<<<"a","n","u","a","l">>, <<"p","o","r"," ","a","n","o">>>>>>,
        \* r'(taxa|percentual).*(crescimento|growth)'
        <<<<<<"t","a","x","a">>, <<"p","e","r","c","e","n","t","u","a","l">>>>, <<<<"c","r","e","s","c","i","m","e","n","t","o">>, <<"g","r","o","w","t","h">>>>>>,
        \* r'(aumento|redução).*(anual|por ano)'
        <<<<<<"a","u","m","e","n","t","o">>, <<"r","e","d","u","ç","ã","o">>>>, <<<<"a","n","u","a","l">>, <<"p","o","r"," ","a","n","o">>>>>>
    >>],
    [type |-> "price_analysis", patterns |-> <<
        \* r'(análise|analise).*(preços|precos|preço|preco)'
        <<<<<<"a","n","á","l","i","s","e">>, <<"a","n","a","l","i","s","e">>>>, <<<<"p","r","e","ç","o","s">>, <<"p","r","e","c","o","s">>, <<"p","r","e","ç","o">>, <<"p","r","e","c","o">>>>>>,
        \* r'(segmentação|segmentacao).*(preços|precos|preço|preco)'
        <<<<<<"s","e","g","m","e","n","t","a","ç","ã","o">>, <<"s","e","g","m","e","n","t","a","c","a","o">>>>, <<<<"p","r","e","ç","o","s">>, <<"p","r","e","c","o","s">>, <<"p","r","e","ç","o">>, <<"p","r","e","c","o">>>>>>,
        \* r'(distribuição|distribuicao).*(preços|precos|preço|preco)'
        <<<<<<"d","i","s","t","r","i","b","u","i","ç","ã","o">>, <<"d","i","s","t","r","i","b","u","i","c","a","o">>>>, <<<<"p","r","e","ç","o","s">>, <<"p","r","e","c","o","s">>, <<"p","r","e","ç","o">>, <<"p","r","e","c","o">>>>>>,
        \* r'(faixas|ranges).*(preços|precos|preço|preco)'
        <<<<<<"f","a","i","x","a","s">>, <<"r","a","n","g","e","s">>>>, <<<<"p","r","e","ç","o","s">>, <<"p","r","e","c","o","s">>, <<"p","r","e","ç","o">>, <<"p","r","e","c","o">>>>>>,
        \* r'(preços|precos|preço|preco).*(por|por).*(modelo|região|regiao)'
        <<<<<<"p","r","e","ç","o","s">>, <<"p","r","e","c","o","s">>, <<"p","r","e","ç","o">>, <<"p","r","e","c","o">>>>, <<<<"p","o","r">>, <<"p","o","r">>>>, <<<<"m","o","d","e","l","o">>, <<"r","e","g","i","ã","o">>, <<"r","e","g","i","a","o">>>>>>,
        \* r'(entry level|mid range|premium|luxury).*(modelos|modelo)'
        <<<<<<"e","n","t","r","y"," ","l","e","v","e","l">>, <<"m","i","d"," ","r","a","n","g","e">>, <<"p","r","e","m","i","u","m">>, <<"l","u","x","u","r","y">>>>, <<<<"m","o","d","e","l","o","s">>, <<"m","o","d","e","l","o">>>>>>
    >>],
    [type |-> "color_performance", patterns |-> <<
        \* r'(cores|cor).*(mais|top|melhores).*(vendidas|populares)'
        <<<<<<"c","o","r","e","s">>, <<"c","o","r">>>>, <<<<"m","a","i","s">>, <<"t","o","p">>, <<"m","e","l","h","o","r","e","s">>>>, <<<<"v","e","n","d","i","d","a","s">>, <<"p","o","p","u","l","a","r","e","s">>>>>>,
        \* r'(performance|desempenho).*(por|da|das).*(cores|cor)'
        <<<<<<"p","e","r","f","o","r","m","a","n","c","e">>, <<"d","e","s","e","m","p","e","n","h","o">>>>, <<<<"p","o","r">>, <<"d","a">>, <<"d","a","s">>>>, <<<<"c","o","r","e","s">>, <<"c","o","r">>>>>>,
        \* r'(análise|analise).*(cores|cor)'
        <<<<<<"a","n","á","l","i","s","e">>, <<"a","n","a","l","i","s","e">>>>, <<<<"c","o","r","e","s">>, <<"c","o","r">>>>>>,
        \* r'(cores|cor).*(preferidas|favoritas|populares)'
        <<<<<<"c","o","r","e","s">>, <<"c","o","r">>>>, <<<<"p","r","e","f","e","r","i","d","a","s">>, <<"f","a","v","o","r","i","t","a","s">>, <<"p","o","p","u","l","a","r","e","s">>>>>>,
        \* r'(qual|quais).*(cores|cor).*(são|sao).*(mais).*(vendidas|populares)'
        <<<<<<"q","u","a","l">>, <<"q","u","a","i","s">>>>, <<<<"c","o","r","e","s">>, <<"c","o","r">>>>, <<<<"s","ã","o">>, <<"s","a","o">>>>, <<<<"m","a","i","s">>>>, <<<<"v","e","n","d","i","d","a","s">>, <<"p","o","p","u","l","a","r","e","s">>>>>>
    >>],
    [type |-> "model_efficiency", patterns |-> <<
        \* r'(eficiência|eficiencia).*(modelos|modelo)'
        <<<<<<"e","f","i","c","i","ê","n","c","i","a">>, <<"e","f","i","c","i","e","n","c","i","a">>>>, <<<<"m","o","d","e","l","o","s">>, <<"m","o","d","e","l","o">>>>>>,
        \* r'(relação|relacao).*(preço|preco).*(eficiência|eficiencia)'
        <<<<<<"r","e","l","a","ç","ã","o">>, <<"r","e","l","a","c","a","o">>>>, <<<<"p","r","e","ç","o">>, <<"p","r","e","c","o">>>>, <<<<"e","f","i","c","i","ê","n","c","i","a">>, <<"e","f","i","c","i","e","n","c","i","a">>>>>>,
        \* r'(modelos|modelo).*(mais|melhor).*(eficientes|eficiente)'
        <<<<<<"m","o","d","e","l","o","s">>, <<"m","o","d","e","l","o">>>>, <<<<"m","a","i","s">>, <<"m","e","l","h","o","r">>>>, <<<<"e","f","i","c","i","e","n","t","e","s">>, <<"e","f","i","c","i","e","n","t","e">>>>>>,
        \* r'(revenue per unit|receita por unidade)'
        <<<<<<"r","e","v","e","n","u","e"," ","p","e","r"," ","u","n","i","t">>, <<"r","e","c","e","i","t","a"," ","p","o","r"," ","u","n","i","d","a","d","e">>>>>>,
        \* r'(price per liter|preço por litro)'
        <<<<<<"p","r","i","c","e"," ","p","e","r"," ","l","i","t","e","r">>, <<"p","r","e","ç","o"," ","p","o","r"," ","l","i","t","r","o">>>>>>,
        \* r'(análise|analise).*(eficiência|eficiencia)'
        <<<<<<"a","n","á","l","i","s","e">>, <<"a","n","a","l","i","s","e">>>>, <<<<"e","f","i","c","i","ê","n","c","i","a">>, <<"e","f","i","c","i","e","n","c","i","a">>>>>>
    >>],
    [type |-> "seasonal_analysis", patterns |-> <<
        \* r'(sazonalidade|sazonal).*(por|da|das).*(região|regiao)'
        <<<<<<"s","a","z","o","n","a","l","i","d","a","d","e">>, <<"s","a","z","o","n","a","l">>>>, <<<<"p","o","r">>, <<"d","a">>, <<"d","a","s">>>>, <<<<"r","e","g","i","ã","o">>, <<"r","e","g","i","a","o">>>>>>,
        \* r'(tendências|trends).*(sazonais|sazonal)'
        <<<<<<"t","e","n","d","ê","n","c","i","a","s">>, <<"t","r","e","n","d","s">>>>, <<<<"s","a","z","o","n","a","i","s">>, <<"s","a","z","o","n","a","l">>>>>>,
        \* r'(crescimento|growth).*(por|da|das).*(região|regiao)'
        <<<<<<"c","r","e","s","c","i","m","e","n","t","o">>, <<"g","r","o","w","t","h">>>>, <<<<"p","o","r">>, <<"d","a">>, <<"d","a","s">>>>, <<<<"r","e","g","i","ã","o">>, <<"r","e","g","i","a","o">>>>>>,
        \* r'(análise|analise).*(sazonal|sazonalidade)'
        <<<<<<"a","n","á","l","i","s","e">>, <<"a","n","a","l","i","s","e">>>>, <<<<"s","a","z","o","n","a","l">>, <<"s","a","z","o","n","a","l","i","d","a","d","e">>>>>>,
        \* r'(performance|desempenho).*(sazonal|sazonalidade)'
        <<<<<<"p","e","r","f","o","r","m","a","n","c","e">>, <<"d","e","s","e","m","p","e","n","h","o">>>>, <<<<"s","a","z","o","n","a","l">>, <<"s","a","z","o","n","a","l","i","d","a","d","e">>>>>>
    >>],
    [type |-> "top_performers", patterns |-> <<
        \* r'(top performers|melhores performers)'
        <<<<<<"t","o","p"," ","p","e","r","f","o","r","m","e","r","s">>, <<"m","e","l","h","o","r","e","s"," ","p","e","r","f","o","r","m","e","r","s">>>>>>,
        \* r'(modelos|modelo).*(completos|completo)'
        <<<<<<"m","o","d","e","l","o","s">>, <<"m","o","d","e","l","o">>>>, <<<<"c","o","m","p","l","e","t","o","s">>, <<"c","o","m","p","l","e","t","o">>>>>>,
        \* r'(ranking|classificação|classificacao).*(composto|completo)'
        <<<<<<"r","a","n","k","i","n","g">>, <<"c","l","a","s","s","i","f","i","c","a","ç","ã","o">>, <<"c","l","a","s","s","i","f","i","c","a","c","a","o">>>>, <<<<"c","o","m","p","o","s","t","o">>, <<"c","o","m","p","l","e","t","o">>>>>>,
        \* r'(múltiplas|multiplas).*(métricas|metricas)'
        <<<<<<"m","ú","l","t","i","p","l","a","s">>, <<"m","u","l","t","i","p","l","a","s">>>>, <<<<"m","é","t","r","i","c","a","s">>, <<"m","e","t","r","i","c","a","s">>>>>>,
        \* r'(score|pontuação|pontuacao).*(composto|completo)'
        <<<<<<"s","c","o","r","e">>, <<"p","o","n","t","u","a","ç","ã","o">>, <<"p","o","n","t","u","a","c","a","o">>>>, <<<<"c","o","m","p","o","s","t","o">>, <<"c","o","m","p","l","e","t","o">>>>>>
    >>],
    [type |-> "price_volume_correlation", patterns |-> <<
        \* r'(correlação|correlacao).*(preço|preco).*(volume)'
        <<<<<<"c","o","r","r","e","l","a","ç","ã","o">>, <<"c","o","r","r","e","l","a","c","a","o">>>>, <<<<"p","r","e","ç","o">>, <<"p","r","e","c","o">>>>, <<<<"v","o","l","u","m","e">>>>>>,
        \* r'(relação|relacao).*(preço|preco).*(vendas|volume)'
        <<<<<<"r","e","l","a","ç","ã","o">>, <<"r","e","l","a","c","a","o">>>>, <<<<"p","r","e","ç","o">>, <<"p","r","e","c","o">>>>, <<<<"v","e","n","d","a","s">>, <<"v","o","l","u","m","e">>>>>>,
        \* r'(análise|analise).*(correlação|correlacao)'
        <<<<<<"a","n","á","l","i","s","e">>, <<"a","n","a","l","i","s","e">>>>, <<<<"c","o","r","r","e","l","a","ç","ã","o">>, <<"c","o","r","r","e","l","a","c","a","o">>>>>>,
        \* r'(preço|preco).*(vs|versus).*(volume|vendas)'
        <<<<<<"p","r","e","ç","o">>, <<"p","r","e","c","o">>>>, <<<<"v","s">>, <<"v","e","r","s","u","s">>>>, <<<<"v","o","l","u","m","e">>, <<"v","e","n","d","a","s">>>>>>,
        \* r'(high price high volume|low price high volume)'
        <<<<<<"h","i","g","h"," ","p","r","i","c","e"," ","h","i","g","h"," ","v","o","l","u","m","e">>, <<"l","o","w"," ","p","r","i","c","e"," ","h","i","g","h"," ","v","o","l","u","m","e">>>>>>
    >>],
    [type |-> "market_penetration", patterns |-> <<
        \* r'(penetração|penetracao).*(mercado|market)'
        <<<<<<"p","e","n","e","t","r","a","ç","ã","o">>, <<"p","e","n","e","t","r","a","c","a","o">>>>, <<<<"m","e","r","c","a","d","o">>, <<"m","a","r","k","e","t">>>>>>,
        \* r'(cobertura|coverage).*(mercado|market)'
        <<<<<<"c","o","b","e","r","t","u","r","a">>, <<"c","o","v","e","r","a","g","e">>>>, <<<<"m","e","r","c","a","d","o">>, <<"m","a","r","k","e","t">>>>>>,
        \* r'(diversidade|diversidade).*(produtos|produto)'
        <<<<<<"d","i","v","e","r","s","i","d","a","d","e">>, <<"d","i","v","e","r","s","i","d","a","d","e">>>>, <<<<"p","r","o","d","u","t","o","s">>, <<"p","r","o","d","u","t","o">>>>>>,
        \* r'(modelos|modelo).*(disponíveis|disponiveis).*(por|da|das).*(região|regiao)'
        <<<<<<"m","o","d","e","l","o","s">>, <<"m","o","d","e","l","o">>>>, <<<<"d","i","s","p","o","n","í","v","e","i","s">>, <<"d","i","s","p","o","n","i","v","e","i","s">>>>, <<<<"p","o","r">>, <<"d","a">>, <<"d","a","s">>>>, <<<<"r","e","g","i","ã","o">>, <<"r","e","g","i","a","o">>>>>>,
        \* r'(market share|participação|participacao).*(mercado|market)'
        <<<<<<"m","a","r","k","e","t"," ","s","h","a","r","e">>, <<"p","a","r","t","i","c","i","p","a","ç","ã","o">>, <<"p","a","r","t","i","c","i","p","a","c","a","o">>>>, <<<<"m","e","r","c","a","d","o">>, <<"m","a","r","k","e","t">>>>>>
    >>],
    [type |-> "temporal_trends", patterns |-> <<
        \* r'(tendências|trends).*(temporais|temporal)'
        <<<<<<"t","e","n","d","ê","n","c","i","a","s">>, <<"t","r","e","n","d","s">>>>, <<<<"t","e","m","p","o","r","a","i","s">>, <<"t","e","m","p","o","r","a","l">>>>>>,
        \* r'(evolução|evolucao).*(temporal|tempo)'
        <<<<<<"e","v","o","l","u","ç","ã","o">>, <<"e","v","o","l","u","c","a","o">>>>, <<<<"t","e","m","p","o","r","a","l">>, <<"t","e","m","p","o">>>>>>,
        \* r'(histórico|historico).*(completo|completo)'
        <<<<<<"h","i","s","t","ó","r","i","c","o">>, <<"h","i","s","t","o","r","i","c","o">>>>, <<<<"c","o","m","p","l","e","t","o">>, <<"c","o","m","p","l","e","t","o">>>>>>,
        \* r'(análise|analise).*(temporal|tempo)'
        <<<<<<"a","n","á","l","i","s","e">>, <<"a","n","a","l","i","s","e">>>>, <<<<"t","e","m","p","o","r","a","l">>, <<"t","e","m","p","o">>>>>>,
        \* r'(crescimento|growth).*(temporal|tempo)'
        <<<<<<"c","r","e","s","c","i","m","e","n","t","o">>, <<"g","r","o","w","t","h">>>>, <<<<"t","e","m","p","o","r","a","l">>, <<"t","e","m","p","o">>>>>>
    >>],
    [type |-> "year_analysis", patterns |-> <<
        \* r'(qual|quais).*(ano|anos).*(tem|tem mais|tem maior|tem melhor)'
        <<<<<<"q","u","a","l">>, <<"q","u","a","i","s">>>>, <<<<"a","n","o">>, <<"a","n","o","s">>>>, <<<<"t","e","m">>, <<"t","e","m"," ","m","a","i","s">>, <<"t","e","m"," ","m","a","i","o","r">>, <<"t","e","m"," ","m","e","l","h","o","r">>>>>>,
        \* r'(ano|anos).*(com mais|com maior|com melhor|melhor)'
        <<<<<<"a","n","o">>, <<"a","n","o","s">>>>, <<<<"c","o","m"," ","m","a","i","s">>, <<"c","o","m"," ","m","a","i","o","r">>, <<"c","o","m"," ","m","e","l","h","o","r">>, <<"m","e","l","h","o","r">>>>>>,
        \* r'(melhor|maior|mais).*(ano|anos)'
        <<<<<<"m","e","l","h","o","r">>, <<"m","a","i","o","r">>, <<"m","a","i","s">>>>, <<<<"a","n","o">>, <<"a","n","o","s">>>>>>,
        \* r'(vendas|modelos|performance).*(por|do|da).*(ano|anos)'
        <<<<<<"v","e","n","d","a","s">>, <<"m","o","d","e","l","o","s">>, <<"p","e","r","f","o","r","m","a","n","c","e">>>>, <<<<"p","o","r">>, <<"d","o">>, <<"d","a">>>>, <<<<"a","n","o">>, <<"a","n","o","s">>>>>>,
        \* r'(ano|anos).*(vendas|modelos|performance)'
        <<<<<<"a","n","o">>, <<"a","n","o","s">>>>, <<<<"v","e","n","d","a","s">>, <<"m","o","d","e","l","o","s">>, <<"p","e","r","f","o","r","m","a","n","c","e">>>>>>,
        \* r'(qual|quais).*(ano|anos).*(vendas|modelos)'
        <<<<<<"q","u","a","l">>, <<"q","u","a","i","s">>>>, <<<<"a","n","o">>, <<"a","n","o","s">>>>, <<<<"v","e","n","d","a","s">>, <<"m","o","d","e","l","o","s">>>>>>,
        \* r'(ano|anos).*(mais|maior|melhor).*(vendas|modelos)'
        <<<<<<"a","n","o">>, <<"a","n","o","s">>>>, <<<<"m","a","i","s">>, <<"m","a","i","o","r">>, <<"m","e","l","h","o","r">>>>, <<<<"v","e","n","d","a","s">>, <<"m","o","d","e","l","o","s">>>>>>
    >>],
    [type |-> "fuel_performance", patterns |-> <<
        \* r'(tipo|tipos).*(combustível|combustivel|fuel)'
        <<<<<<"t","i","p","o">>, <<"t","i","p","o","s">>>>, <<<<"c","o","m","b","u","s","t","í","v","e","l">>, <<"c","o","m","b","u","s","t","i","v","e","l">>, <<"f","u","e","l">>>>>>,
        \* r'(performance|desempenho).*(combustível|combustivel|fuel)'
        <<<<<<"p","e","r","f","o","r","m","a","n","c","e">>, <<"d","e","s","e","m","p","e","n","h","o">>>>, <<<<"c","o","m","b","u","s","t","í","v","e","l">>, <<"c","o","m","b","u","s","t","i","v","e","l">>, <<"f","u","e","l">>>>>>,
        \* r'(vendas|sales).*(por|do).*(combustível|combustivel|fuel)'
        <<<<<<"v","e","n","d","a","s">>, <<"s","a","l","e","s">>>>, <<<<"p","o","r">>, <<"d","o">>>>, <<<<"c","o","m","b","u","s","t","í","v","e","l">>, <<"c","o","m","b","u","s","t","i","v","e","l">>, <<"f","u","e","l">>>>>>,
        \* r'(análise|comparativo).*(combustível|combustivel|fuel)'
        <<<<<<"a","n","á","l","i","s","e">>, <<"c","o","m","p","a","r","a","t","i","v","o">>>>, <<<<"c","o","m","b","u","s","t","í","v","e","l">>, <<"c","o","m","b","u","s","t","i","v","e","l">>, <<"f","u","e","l">>>>>>
    >>],
    [type |-> "transmission_performance", patterns |-> <<
        \* r'(transmissão|transmissao|transmission|câmbio|cambio)'
        <<<<<<"t","r","a","n","s","m","i","s","s","ã","o">>, <<"t","r","a","n","s","m","i","s","s","a","o">>, <<"t","r","a","n","s","m","i","s","s","i","o","n">>, <<"c","â","m","b","i","o">>, <<"c","a","m","b","i","o">>>>>>,
        \* r'(performance|desempenho).*(transmissão|transmissao|transmission)'
        <<<<<<"p","e","r","f","o","r","m","a","n","c","e">>, <<"d","e","s","e","m","p","e","n","h","o">>>>, <<<<"t","r","a","n","s","m","i","s","s","ã","o">>, <<"t","r","a","n","s","m","i","s","s","a","o">>, <<"t","r","a","n","s","m","i","s","s","i","o","n">>>>>>,
        \* r'(vendas|sales).*(por|do).*(transmissão|transmissao|transmission)'
        <<<<<<"v","e","n","d","a","s">>, <<"s","a","l","e","s">>>>, <<<<"p","o","r">>, <<"d","o">>>>, <<<<"t","r","a","n","s","m","i","s","s","ã","o">>, <<"t","r","a","n","s","m","i","s","s","a","o">>, <<"t","r","a","n","s","m","i","s","s","i","o","n">>>>>>,
        \* r'(análise|comparativo).*(transmissão|transmissao|transmission)'
        <<<<<<"a","n","á","l","i","s","e">>, <<"c","o","m","p","a","r","a","t","i","v","o">>>>, <<<<"t","r","a","n","s","m","i","s","s","ã","o">>, <<"t","r","a","n","s","m","i","s","s","a","o">>, <<"t","r","a","n","s","m","i","s","s","i","o","n">>>>>>
    >>],
    [type |-> "market_share", patterns |-> <<
        \* r'(market share|participação|participacao).*(mercado|market)'
        <<<<<<"m","a","r","k","e","t"," ","s","h","a","r","e">>, <<"p","a","r","t","i","c","i","p","a","ç","ã","o">>, <<"p","a","r","t","i","c","i","p","a","c","a","o">>>>, <<<<"m","e","r","c","a","d","o">>, <<"m","a","r","k","e","t">>>>>>,
        \* r'(quota|share).*(mercado|market)'
        <<<<<<"q","u","o","t","a">>, <<"s","h","a","r","e">>>>, <<<<"m","e","r","c","a","d","o">>, <<"m","a","r","k","e","t">>>>>>,
        \* r'(percentual|porcentagem).*(mercado|market)'
        <<<<<<"p","e","r","c","e","n","t","u","a","l">>, <<"p","o","r","c","e","n","t","a","g","e","m">>>>, <<<<"m","e","r","c","a","d","o">>, <<"m","a","r","k","e","t">>>>>>
    >>],
    [type |-> "count_total", patterns |-> <<
        \* r'(conte|count|total|quantos|quantas).*(registros|records)'
        <<<<<<"c","o","n","t","e">>, <<"c","o","u","n","t">>, <<"t","o","t","a","l">>, <<"q","u","a","n","t","o","s">>, <<"q","u","a","n","t","a","s">>>>, <<<<"r","e","g","i","s","t","r","o","s">>, <<"r","e","c","o","r","d","s">>>>>>,
        \* r'(quantos|quantas).*(registros|records|linhas)'
        <<<<<<"q","u","a","n","t","o","s">>, <<"q","u","a","n","t","a","s">>>>, <<<<"r","e","g","i","s","t","r","o","s">>, <<"r","e","c","o","r","d","s">>, <<"l","i","n","h","a","s">>>>>>,
        \* r'(total|soma).*(registros|records)'
        <<<<<<"t","o","t","a","l">>, <<"s","o","m","a">>>>, <<<<"r","e","g","i","s","t","r","o","s">>, <<"r","e","c","o","r","d","s">>>>>>,
        \* r'(número|numero|n).*(registros|records)'
        <<<<<<"n","ú","m","e","r","o">>, <<"n","u","m","e","r","o">>, <<"n">>>>, <<<<"r","e","g","i","s","t","r","o","s">>, <<"r","e","c","o","r","d","s">>>>>>
    >>],
    [type |-> "count_regions", patterns |-> <<
        \* r'(conte|count|quantos|quantas).*(regiões|região|regions)'
        <<<<<<"c","o","n","t","e">>, <<"c","o","u","n","t">>, <<"q","u","a","n","t","o","s">>, <<"q","u","a","n","t","a","s">>>>, <<<<"r","e","g","i","õ","e","s">>, <<"r","e","g","i","ã","o">>, <<"r","e","g","i","o","n","s">>>>>>,
        \* r'(quantos|quantas).*(regiões|região|regions)'
        <<<<<<"q","u","a","n","t","o","s">>, <<"q","u","a","n","t","a","s">>>>, <<<<"r","e","g","i","õ","e","s">>, <<"r","e","g","i","ã","o">>, <<"r","e","g","i","o","n","s">>>>>>,
        \* r'(total|soma).*(regiões|região|regions)'
        <<<<<<"t","o","t","a","l">>, <<"s","o","m","a">>>>, <<<<"r","e","g","i","õ","e","s">>, <<"r","e","g","i","ã","o">>, <<"r","e","g","i","o","n","s">>>>>>
    >>],
    [type |-> "count_models", patterns |-> <<
        \* r'(conte|count|quantos|quantas).*(modelos|modelo|models)'
        <<<<<<"c","o","n","t","e">>, <<"c","o","u","n","t">>, <<"q","u","a","n","t","o","s">>, <<"q","u","a","n","t","a","s">>>>, <<<<"m","o","d","e","l","o","s">>, <<"m","o","d","e","l","o">>, <<"m","o","d","e","l","s">>>>>>,
        \* r'(quantos|quantas).*(modelos|modelo|models)'
        <<<<<<"q","u","a","n","t","o","s">>, <<"q","u","a","n","t","a","s">>>>, <<<<"m","o","d","e","l","o","s">>, <<"m","o","d","e","l","o">>, <<"m","o","d","e","l","s">>>>>>,
        \* r'(total|soma).*(modelos|modelo|models)'
        <<<<<<"t","o","t","a","l">>, <<"s","o","m","a">>>>, <<<<"m","o","d","e","l","o","s">>, <<"m","o","d","e","l","o">>, <<"m","o","d","e","l","s">>>>>>
    >>],
    [type |-> "average_price", patterns |-> <<
        \* r'(média|media|average|avg).*(preço|preco|price)'
        <<<<<<"m","é","d","i","a">>, <<"m","e","d","i","a">>, <<"a","v","e","r","a","g","e">>, <<"a","v","g">>>>, <<<<"p","r","e","ç","o">>, <<"p","r","e","c","o">>, <<"p","r","i","c","e">>>>>>,
        \* r'(preço|preco|price).*(médio|medio|average)'
        <<<<<<"p","r","e","ç","o">>, <<"p","r","e","c","o">>, <<"p","r","i","c","e">>>>, <<<<"m","é","d","i","o">>, <<"m","e","d","i","o">>, <<"a","v","e","r","a","g","e">>>>>>,
        \* r'(valor|value).*(médio|medio|average)'
        <<<<<<"v","a","l","o","r">>, <<"v","a","l","u","e">>>>, <<<<"m","é","d","i","o">>, <<"m","e","d","i","o">>, <<"a","v","e","r","a","g","e">>>>>>,
        \* r'(custo|cost).*(médio|medio|average)'
        <<<<<<"c","u","s","t","o">>, <<"c","o","s","t">>>>, <<<<"m","é","d","i","o">>, <<"m","e","d","i","o">>, <<"a","v","e","r","a","g","e">>>>>>,
        \* r'(média|media|average|avg).*(preço|preco|price).*(por|do|da|dos).*(ano|anos)'
        <<<<<<"m","é","d","i","a">>, <<"m","e","d","i","a">>, <<"a","v","e","r","a","g","e">>, <<"a","v","g">>>>, <<<<"p","r","e","ç","o">>, <<"p","r","e","c","o">>, <<"p","r","i","c","e">>>>, <<<<"p","o","r">>, <<"d","o">>, <<"d","a">>, <<"d","o","s">>>>, <<<<"a","n","o">>, <<"a","n","o","s">>>>>>,
        \* r'(preço|preco|price).*(médio|medio|average).*(por|do|da|dos).*(ano|anos)'
        <<<<<<"p","r","e","ç","o">>, <<"p","r","e","c","o">>, <<"p","r","i","c","e">>>>, <<<<"m","é","d","i","o">>, <<"m","e","d","i","o">>, <<"a","v","e","r","a","g","e">>>>, <<<<"p","o","r">>, <<"d","o">>, <<"d","a">>, <<"d","o","s">>>>, <<<<"a","n","o">>, <<"a","n","o","s">>>>>>,
        \* r'(qual|quais).*(média|media|average|avg).*(preço|preco|price).*(por|do|da|dos).*(ano|anos)'
        <<<<<<"q","u","a","l">>, <<"q","u","a","i","s">>>>, <<<<"m","é","d","i","a">>, <<"m","e","d","i","a">>, <<"a","v","e","r","a","g","e">>, <<"a","v","g">>>>, <<<<"p","r","e","ç","o">>, <<"p","r","e","c","o">>, <<"p","r","i","c","e">>>>, <<<<"p","o","r">>, <<"d","o">>, <<"d","a">>, <<"d","o","s">>>>, <<<<"a","n","o">>, <<"a","n","o","s">>>>>>
    >>],
    [type |-> "average_sales", patterns |-> <<
        \* r'(média|media|average|avg).*(vendas|sales|unidades)'
        <<<<<<"m","é","d","i","a">>, <<"m","e","d","i","a">>, <<"a","v","e","r","a","g","e">>, <<"a","v","g">>>>, <<<<"v","e","n","d","a","s">>, <<"s","a","l","e","s">>, <<"u","n","i","d","a","d","e","s">>>>>>,
        \* r'(vendas|sales|unidades).*(média|media|average)'
        <<<<<<"v","e","n","d","a","s">>, <<"s","a","l","e","s">>, <<"u","n","i","d","a","d","e","s">>>>, <<<<"m","é","d","i","a">>, <<"m","e","d","i","a">>, <<"a","v","e","r","a","g","e">>>>>>,
        \* r'(quantidade|quantity).*(média|media|average)'
        <<<<<<"q","u","a","n","t","i","d","a","d","e">>, <<"q","u","a","n","t","i","t","y">>>>, <<<<"m","é","d","i","a">>, <<"m","e","d","i","a">>, <<"a","v","e","r","a","g","e">>>>>>
    >>],
    [type |-> "sum_sales", patterns |-> <<
        \* r'(soma|sum|total).*(vendas|sales|unidades)'
        <<<<<<"s","o","m","a">>, <<"s","u","m">>, <<"t","o","t","a","l">>>>, <<<<"v","e","n","d","a","s">>, <<"s","a","l","e","s">>, <<"u","n","i","d","a","d","e","s">>>>>>,
        \* r'(total|soma|sum).*(unidades|units)'
        <<<<<<"t","o","t","a","l">>, <<"s","o","m","a">>, <<"s","u","m">>>>, <<<<"u","n","i","d","a","d","e","s">>, <<"u","n","i","t","s">>>>>>,
        \* r'(quantidade|quantity).*(total|soma|sum)'
        <<<<<<"q","u","a","n","t","i","d","a","d","e">>, <<"q","u","a","n","t","i","t","y">>>>, <<<<"t","o","t","a","l">>, <<"s","o","m","a">>, <<"s","u","m">>>>>>
    >>],
    [type |-> "sum_revenue", patterns |-> <<
        \* r'(soma|sum|total).*(receita|revenue|faturamento)'
        <<<<<<"s","o","m","a">>, <<"s","u","m">>, <<"t","o","t","a","l">>>>, <<<<"r","e","c","e","i","t","a">>, <<"r","e","v","e","n","u","e">>, <<"f","a","t","u","r","a","m","e","n","t","o">>>>>>,
        \* r'(total|soma|sum).*(receita|revenue)'
        <<<<<<"t","o","t","a","l">>, <<"s","o","m","a">>, <<"s","u","m">>>>, <<<<"r","e","c","e","i","t","a">>, <<"r","e","v","e","n","u","e">>>>>>,
        \* r'(faturamento|billing).*(total|soma|sum)'
        <<<<<<"f","a","t","u","r","a","m","e","n","t","o">>, <<"b","i","l","l","i","n","g">>>>, <<<<"t","o","t","a","l">>, <<"s","o","m","a">>, <<"s","u","m">>>>>>
    >>],
    [type |-> "asia_sales", patterns |-> <<
        \* r'(vendas|sales).*(ásia|asia|asiático|asiatico)'
        <<<<<<"v","e","n","d","a","s">>, <<"s","a","l","e","s">>>>, <<<<"á","s","i","a">>, <<"a","s","i","a">>, <<"a","s","i","á","t","i","c","o">>, <<"a","s","i","a","t","i","c","o">>>>>>,
        \* r'(ásia|asia|asiático|asiatico).*(vendas|sales)'
        <<<<<<"á","s","i","a">>, <<"a","s","i","a">>, <<"a","s","i","á","t","i","c","o">>, <<"a","s","i","a","t","i","c","o">>>>, <<<<"v","e","n","d","a","s">>, <<"s","a","l","e","s">>>>>>,
        \* r'(mercado|market).*(asiático|asiatico|ásia|asia)'
        <<<<<<"m","e","r","c","a","d","o">>, <<"m","a","r","k","e","t">>>>, <<<<"a","s","i","á","t","i","c","o">>, <<"a","s","i","a","t","i","c","o">>, <<"á","s","i","a">>, <<"a","s","i","a">>>>>>
    >>],
    [type |-> "europe_sales", patterns |-> <<
        \* r'(vendas|sales).*(europa|europeu|europe)'
        <<<<<<"v","e","n","d","a","s">>, <<"s","a","l","e","s">>>>, <<<<"e","u","r","o","p","a">>, <<"e","u","r","o","p","e","u">>, <<"e","u","r","o","p","e">>>>>>,
        \* r'(europa|europeu|europe).*(vendas|sales)'
        <<<<<<"e","u","r","o","p","a">>, <<"e","u","r","o","p","e","u">>, <<"e","u","r","o","p","e">>>>, <<<<"v","e","n","d","a","s">>, <<"s","a","l","e","s">>>>>>,
        \* r'(mercado|market).*(europeu|europe|europa)'
        <<<<<<"m","e","r","c","a","d","o">>, <<"m","a","r","k","e","t">>>>, <<<<"e","u","r","o","p","e","u">>, <<"e","u","r","o","p","e">>, <<"e","u","r","o","p","a">>>>>>
    >>],
    [type |-> "america_sales", patterns |-> <<
        \* r'(vendas|sales).*(américa|america|americano|america)'
        <<<<<<"v","e","n","d","a","s">>, <<"s","a","l","e","s">>>>, <<<<"a","m","é","r","i","c","a">>, <<"a","m","e","r","i","c","a">>, <<"a","m","e","r","i","c","a","n","o">>, <<"a","m","e","r","i","c","a">>>>>>,
        \* r'(américa|america|americano|america).*(vendas|sales)'
        <<<<<<"a","m","é","r","i","c","a">>, <<"a","m","e","r","i","c","a">>, <<"a","m","e","r","i","c","a","n","o">>, <<"a","m","e","r","i","c","a">>>>, <<<<"v","e","n","d","a","s">>, <<"s","a","l","e","s">>>>>>,
        \* r'(mercado|market).*(americano|america|américa)'
        <<<<<<"m","e","r","c","a","d","o">>, <<"m","a","r","k","e","t">>>>, <<<<"a","m","e","r","i","c","a","n","o">>, <<"a","m","e","r","i","c","a">>, <<"a","m","é","r","i","c","a">>>>>>
    >>],
    [type |-> "series_7", patterns |-> <<
        \* r'(série|serie|series).*7'
        <<<<<<"s","é","r","i","e">>, <<"s","e","r","i","e">>, <<"s","e","r","i","e","s">>>>, <<<<"7">>>>>>,
        \* r'7.*(série|serie|series)'
        <<<<<<"7">>>>, <<<<"s","é","r","i","e">>, <<"s","e","r","i","e">>, <<"s","e","r","i","e","s">>>>>>,
        \* r'(modelo|model).*7'
        <<<<<<"m","o","d","e","l","o">>, <<"m","o","d","e","l">>>>, <<<<"7">>>>>>,
        \* r'7.*(modelo|model)'
        <<<<<<"7">>>>, <<<<"m","o","d","e","l","o">>, <<"m","o","d","e","l">>>>>>
    >>],
    [type |-> "series_3", patterns |-> <<
        \* r'(série|serie|series).*3'
        <<<<<<"s","é","r","i","e">>, <<"s","e","r","i","e">>, <<"s","e","r","i","e","s">>>>, <<<<"3">>>>>>,
        \* r'3.*(série|serie|series)'
        <<<<<<"3">>>>, <<<<"s","é","r","i","e">>, <<"s","e","r","i","e">>, <<"s","e","r","i","e","s">>>>>>,
        \* r'(modelo|model).*3'
        <<<<<<"m","o","d","e","l","o">>, <<"m","o","d","e","l">>>>, <<<<"3">>>>>>,
        \* r'3.*(modelo|model)'
        <<<<<<"3">>>>, <<<<"m","o","d","e","l","o">>, <<"m","o","d","e","l">>>>>>
    >>],
    [type |-> "i8_sales", patterns |-> <<
        \* r'(i8|i-8)'
        <<<<<<"i","8">>, <<"i","-","8">>>>>>,
        \* r'(modelo|model).*(i8|i-8)'
        <<<<<<"m","o","d","e","l","o">>, <<"m","o","d","e","l">>>>, <<<<"i","8">>, <<"i","-","8">>>>>>,
        \* r'(vendas|sales).*(i8|i-8)'
        <<<<<<"v","e","n","d","a","s">>, <<"s","a","l","e","s">>>>, <<<<"i","8">>, <<"i","-","8">>>>>>
    >>]
>>

\* self.predefined_queries: category id -> SQL text.
PredefinedQueries ==
    [ dashboard |-> "SELECT * FROM analytics.kpi_executive_dashboard",
      top_regions |-> "SELECT * FROM analytics.kpi_top_5_regions",
      top_models |-> "SELECT * FROM analytics.kpi_top_10_models LIMIT 10",
      annual_sales |-> "SELECT * FROM analytics.kpi_annual_sales",
      regional_performance |-> "SELECT * FROM analytics.kpi_regional_performance",
      model_performance |-> "SELECT model, TO_CHAR(SUM(price_usd * sales_volume), 'FM999,999,999,999,999') as total_revenue, SUM(sales_volume) as total_units_sold FROM bmw_sales GROUP BY model ORDER BY SUM(price_usd * sales_volume) DESC",
      fuel_performance |-> "SELECT * FROM analytics.kpi_fuel_type_performance",
      transmission_performance |-> "SELECT * FROM analytics.kpi_transmission_performance",
      annual_growth |-> "SELECT * FROM analytics.kpi_annual_growth",
      year_analysis |-> "SELECT year, COUNT(DISTINCT model) as total_models, SUM(sales_volume) as total_sales FROM bmw_sales GROUP BY year ORDER BY total_sales DESC",
      price_analysis |-> "SELECT * FROM analytics.kpi_price_analysis",
      color_performance |-> "SELECT * FROM analytics.kpi_color_performance",
      model_efficiency |-> "SELECT * FROM analytics.kpi_model_efficiency",
      seasonal_analysis |-> "SELECT * FROM analytics.kpi_seasonal_analysis",
      top_performers |-> "SELECT * FROM analytics.kpi_top_performers",
      price_volume_correlation |-> "SELECT * FROM analytics.kpi_price_volume_correlation",
      market_penetration |-> "SELECT * FROM analytics.kpi_market_penetration",
      temporal_trends |-> "SELECT * FROM analytics.kpi_temporal_trends",
      count_total |-> "SELECT COUNT(*) as total_records FROM bmw_sales",
      count_regions |-> "SELECT COUNT(DISTINCT region) as total_regions FROM bmw_sales",
      count_models |-> "SELECT COUNT(DISTINCT model) as total_models FROM bmw_sales",
      count_countries |-> "SELECT COUNT(DISTINCT country) as total_countries FROM bmw_sales",
      average_price |-> "SELECT year, AVG(price_usd) as average_price FROM bmw_sales GROUP BY year ORDER BY year",
      average_sales |-> "SELECT AVG(sales_volume) as average_sales FROM bmw_sales",
      average_revenue |-> "SELECT AVG(price_usd * sales_volume) as average_revenue FROM bmw_sales",
      average_mileage |-> "SELECT AVG(mileage_km) as average_mileage FROM bmw_sales",
      sum_sales |-> "SELECT SUM(sales_volume) as total_sales FROM bmw_sales",
      sum_revenue |-> "SELECT TO_CHAR(SUM(price_usd * sales_volume), 'FM999,999,999,999,999') as total_revenue FROM bmw_sales",
      sum_sales_value |-> "SELECT TO_CHAR(SUM(price_usd * sales_volume), 'FM999,999,999,999,999') as total_sales_value FROM bmw_sales",
      min_price |-> "SELECT MIN(price_usd) as min_price FROM bmw_sales",
      max_price |-> "SELECT MAX(price_usd) as max_price FROM bmw_sales",
      min_sales |-> "SELECT MIN(sales_volume) as min_sales FROM bmw_sales",
      max_sales |-> "SELECT MAX(sales_volume) as max_sales FROM bmw_sales",
      top_region_revenue |-> "SELECT region, TO_CHAR(SUM(price_usd * sales_volume), 'FM999,999,999,999,999') as total_revenue FROM bmw_sales GROUP BY region ORDER BY SUM(price_usd * sales_volume) DESC LIMIT 1",
      top_model_revenue |-> "SELECT model, TO_CHAR(SUM(price_usd * sales_volume), 'FM999,999,999,999,999') as total_revenue FROM bmw_sales GROUP BY model ORDER BY SUM(price_usd * sales_volume) DESC LIMIT 1",
      series_7 |-> "SELECT * FROM bmw_sales WHERE model = '7 Series' ORDER BY sales_volume DESC LIMIT 10",
      series_3 |-> "SELECT * FROM bmw_sales WHERE model = '3 Series' ORDER BY sales_volume DESC LIMIT 10",
      i8_sales |-> "SELECT * FROM bmw_sales WHERE model = 'i8' ORDER BY sales_volume DESC LIMIT 10" ]


\* The characters of each category id.
TypeChars ==
    [ dashboard |-> <<"d","a","s","h","b","o","a","r","d">>,
      top_regions |-> <<"t","o","p","_","r","e","g","i","o","n","s">>,
      regional_performance |-> <<"r","e","g","i","o","n","a","l","_","p","e","r","f","o","r","m","a","n","c","e">>,
      top_models |-> <<"t","o","p","_","m","o","d","e","l","s">>,
      model_performance |-> <<"m","o","d","e","l","_","p","e","r","f","o","r","m","a","n","c","e">>,
      annual_sales |-> <<"a","n","n","u","a","l","_","s","a","l","e","s">>,
      annual_growth |-> <<"a","n","n","u","a","l","_","g","r","o","w","t","h">>,
      price_analysis |-> <<"p","r","i","c","e","_","a","n","a","l","y","s","i","s">>,
      color_performance |-> <<"c","o","l","o","r","_","p","e","r","f","o","r","m","a","n","c","e">>,
      model_efficiency |-> <<"m","o","d","e","l","_","e","f","f","i","c","i","e","n","c","y">>,
      seasonal_analysis |-> <<"s","e","a","s","o","n","a","l","_","a","n","a","l","y","s","i","s">>,
      top_performers |-> <<"t","o","p","_","p","e","r","f","o","r","m","e","r","s">>,
      price_volume_correlation |-> <<"p","r","i","c","e","_","v","o","l","u","m","e","_","c","o","r","r","e","l","a","t","i","o","n">>,
      market_penetration |-> <<"m","a","r","k","e","t","_","p","e","n","e","t","r","a","t","i","o","n">>,
      temporal_trends |-> <<"t","e","m","p","o","r","a","l","_","t","r","e","n","d","s">>,
      year_analysis |-> <<"y","e","a","r","_","a","n","a","l","y","s","i","s">>,
      fuel_performance |-> <<"f","u","e","l","_","p","e","r","f","o","r","m","a","n","c","e">>,
      transmission_performance |-> <<"t","r","a","n","s","m","i","s","s","i","o","n","_","p","e","r","f","o","r","m","a","n","c","e">>,
      market_share |-> <<"m","a","r","k","e","t","_","s","h","a","r","e">>,
      count_total |-> <<"c","o","u","n","t","_","t","o","t","a","l">>,
      count_regions |-> <<"c","o","u","n","t","_","r","e","g","i","o","n","s">>,
      count_models |-> <<"c","o","u","n","t","_","m","o","d","e","l","s">>,
      average_price |-> <<"a","v","e","r","a","g","e","_","p","r","i","c","e">>,
      average_sales |-> <<"a","v","e","r","a","g","e","_","s","a","l","e","s">>,
      sum_sales |-> <<"s","u","m","_","s","a","l","e","s">>,
      sum_revenue |-> <<"s","u","m","_","r","e","v","e","n","u","e">>,
      asia_sales |-> <<"a","s","i","a","_","s","a","l","e","s">>,
      europe_sales |-> <<"e","u","r","o","p","e","_","s","a","l","e","s">>,
      america_sales |-> <<"a","m","e","r","i","c","a","_","s","a","l","e","s">>,
      series_7 |-> <<"s","e","r","i","e","s","_","7">>,
      series_3 |-> <<"s","e","r","i","e","s","_","3">>,
      i8_sales |-> <<"i","8","_","s","a","l","e","s">> ]


(***************************************************************************)
(* _generate_custom_query_improved: the if/elif chain of keyword groups.    *)
(* Each group is its primary test (..Test) and its body (..Group); a body   *)
(* none of whose branches returns falls through to the final return None.  *)
(***************************************************************************)
\* line 458: if any(word in query for word in ['conte', 'count', 'quantos ...
CountTest(query) ==
    (AnyIn(query, <<<<"c","o","n","t","e">>, <<"c","o","u","n","t">>, <<"q","u","a","n","t","o","s">>, <<"q","u","a","n","t","a","s">>>>) /\ ~AnyIn(query, <<<<"s","o","m","a">>, <<"s","u","m">>, <<"t","o","t","a","l">>>>))

\* The model test comes before the region test.
CountGroup_ModelFirst(query) ==
    IF AnyIn(query, <<<<"m","o","d","e","l","o","s">>, <<"m","o","d","e","l","o">>, <<"m","o","d","e","l","s">>>>)
    THEN "SELECT COUNT(DISTINCT model) as total_models FROM bmw_sales"
    ELSE IF AnyIn(query, <<<<"r","e","g","i","õ","e","s">>, <<"r","e","g","i","ã","o">>, <<"r","e","g","i","o","n","s">>>>)
    THEN "SELECT COUNT(DISTINCT region) as total_regions FROM bmw_sales"
    ELSE IF AnyIn(query, <<<<"p","a","í","s","e","s">>, <<"p","a","í","s">>, <<"c","o","u","n","t","r","i","e","s">>>>)
    THEN "SELECT COUNT(DISTINCT country) as total_countries FROM bmw_sales"
    ELSE "SELECT COUNT(*) as total_records FROM bmw_sales"

CountGroup(query) ==
    IF AnyIn(query, <<<<"r","e","g","i","õ","e","s">>, <<"r","e","g","i","ã","o">>, <<"r","e","g","i","o","n","s">>>>)    \* line 459
    THEN
        "SELECT COUNT(DISTINCT region) as total_regions FROM bmw_sales"
    ELSE
        IF AnyIn(query, <<<<"m","o","d","e","l","o","s">>, <<"m","o","d","e","l","o">>, <<"m","o","d","e","l","s">>>>)    \* line 461
        THEN
            "SELECT COUNT(DISTINCT model) as total_models FROM bmw_sales"
        ELSE
            IF AnyIn(query, <<<<"p","a","í","s","e","s">>, <<"p","a","í","s">>, <<"c","o","u","n","t","r","i","e","s">>>>)    \* line 463
            THEN
                "SELECT COUNT(DISTINCT country) as total_countries FROM bmw_sales"
            ELSE
                IF AnyIn(query, <<<<"r","e","g","i","s","t","r","o","s">>, <<"r","e","c","o","r","d","s">>, <<"l","i","n","h","a","s">>>>)    \* line 465
                THEN
                    "SELECT COUNT(*) as total_records FROM bmw_sales"
                ELSE
                    "SELECT COUNT(*) as total_records FROM bmw_sales"

\* line 471: elif any(word in query for word in ['média', 'media', 'avera ...
AverageTest(query) ==
    AnyIn(query, <<<<"m","é","d","i","a">>, <<"m","e","d","i","a">>, <<"a","v","e","r","a","g","e">>, <<"a","v","g">>>>)

AverageGroup(query) ==
    IF AnyIn(query, <<<<"p","r","e","ç","o">>, <<"p","r","e","c","o">>, <<"p","r","i","c","e">>>>)    \* line 472
    THEN
        IF AnyIn(query, <<<<"p","o","r">>, <<"p","o","r"," ","c","a","d","a">>, <<"p","o","r"," ","m","o","d","e","l","o">>, <<"p","o","r"," ","m","o","d","e","l","o","s">>, <<"p","o","r"," ","r","e","g","i","ã","o">>, <<"p","o","r"," ","r","e","g","i","õ","e","s">>, <<"p","o","r"," ","a","n","o">>, <<"p","o","r"," ","a","n","o","s">>>>)    \* line 474
        THEN
            IF AnyIn(query, <<<<"m","o","d","e","l","o">>, <<"m","o","d","e","l","o","s">>>>)    \* line 475
            THEN
                "SELECT model, AVG(price_usd) as average_price FROM bmw_sales GROUP BY model ORDER BY average_price DESC"
            ELSE
                IF AnyIn(query, <<<<"r","e","g","i","ã","o">>, <<"r","e","g","i","õ","e","s">>>>)    \* line 477
                THEN
                    "SELECT region, AVG(price_usd) as average_price FROM bmw_sales GROUP BY region ORDER BY average_price DESC"
                ELSE
                    IF AnyIn(query, <<<<"a","n","o">>, <<"a","n","o","s">>>>)    \* line 479
                    THEN
                        "SELECT year, AVG(price_usd) as average_price FROM bmw_sales GROUP BY year ORDER BY year"
                    ELSE
                        "SELECT AVG(price_usd) as average_price FROM bmw_sales"
        ELSE
            "SELECT AVG(price_usd) as average_price FROM bmw_sales"
    ELSE
        IF AnyIn(query, <<<<"v","e","n","d","a","s">>, <<"s","a","l","e","s">>, <<"u","n","i","d","a","d","e","s">>>>)    \* line 485
        THEN
            IF AnyIn(query, <<<<"p","o","r">>, <<"p","o","r"," ","c","a","d","a">>, <<"p","o","r"," ","m","o","d","e","l","o">>, <<"p","o","r"," ","m","o","d","e","l","o","s">>, <<"p","o","r"," ","r","e","g","i","ã","o">>, <<"p","o","r"," ","r","e","g","i","õ","e","s">>, <<"p","o","r"," ","a","n","o">>, <<"p","o","r"," ","a","n","o","s">>>>)    \* line 487
            THEN
                IF AnyIn(query, <<<<"m","o","d","e","l","o">>, <<"m","o","d","e","l","o","s">>>>)    \* line 488
                THEN
                    "SELECT model, AVG(sales_volume) as average_sales FROM bmw_sales GROUP BY model ORDER BY average_sales DESC"
                ELSE
                    IF AnyIn(query, <<<<"r","e","g","i","ã","o">>, <<"r","e","g","i","õ","e","s">>>>)    \* line 490
                    THEN
                        "SELECT region, AVG(sales_volume) as average_sales FROM bmw_sales GROUP BY region ORDER BY average_sales DESC"
                    ELSE
                        IF AnyIn(query, <<<<"a","n","o">>, <<"a","n","o","s">>>>)    \* line 492
                        THEN
                            "SELECT year, AVG(sales_volume) as average_sales FROM bmw_sales GROUP BY year ORDER BY year"
                        ELSE
                            "SELECT AVG(sales_volume) as average_sales FROM bmw_sales"
            ELSE
                "SELECT AVG(sales_volume) as average_sales FROM bmw_sales"
        ELSE
            IF AnyIn(query, <<<<"r","e","c","e","i","t","a">>, <<"r","e","v","e","n","u","e">>>>)    \* line 498
            THEN
                IF AnyIn(query, <<<<"p","o","r">>, <<"p","o","r"," ","c","a","d","a">>, <<"p","o","r"," ","m","o","d","e","l","o">>, <<"p","o","r"," ","m","o","d","e","l","o","s">>, <<"p","o","r"," ","r","e","g","i","ã","o">>, <<"p","o","r"," ","r","e","g","i","õ","e","s">>, <<"p","o","r"," ","a","n","o">>, <<"p","o","r"," ","a","n","o","s">>>>)    \* line 500
                THEN
                    IF AnyIn(query, <<<<"m","o","d","e","l","o">>, <<"m","o","d","e","l","o","s">>>>)    \* line 501
                    THEN
                        "SELECT model, AVG(price_usd * sales_volume) as average_revenue FROM bmw_sales GROUP BY model ORDER BY average_revenue DESC"
                    ELSE
                        IF AnyIn(query, <<<<"r","e","g","i","ã","o">>, <<"r","e","g","i","õ","e","s">>>>)    \* line 503
                        THEN
                            "SELECT region, AVG(price_usd * sales_volume) as average_revenue FROM bmw_sales GROUP BY region ORDER BY average_revenue DESC"
                        ELSE
                            IF AnyIn(query, <<<<"a","n","o">>, <<"a","n","o","s">>>>)    \* line 505
                            THEN
                                "SELECT year, AVG(price_usd * sales_volume) as average_revenue FROM bmw_sales GROUP BY year ORDER BY year"
                            ELSE
                                "SELECT AVG(price_usd * sales_volume) as average_revenue FROM bmw_sales"
                ELSE
                    "SELECT AVG(price_usd * sales_volume) as average_revenue FROM bmw_sales"
            ELSE
                IF AnyIn(query, <<<<"q","u","i","l","o","m","e","t","r","a","g","e","m">>, <<"m","i","l","e","a","g","e">>>>)    \* line 511
                THEN
                    IF AnyIn(query, <<<<"p","o","r">>, <<"p","o","r"," ","c","a","d","a">>, <<"p","o","r"," ","m","o","d","e","l","o">>, <<"p","o","r"," ","m","o","d","e","l","o","s">>, <<"p","o","r"," ","r","e","g","i","ã","o">>, <<"p","o","r"," ","r","e","g","i","õ","e","s">>, <<"p","o","r"," ","a","n","o">>, <<"p","o","r"," ","a","n","o","s">>>>)    \* line 513
                    THEN
                        IF AnyIn(query, <<<<"m","o","d","e","l","o">>, <<"m","o","d","e","l","o","s">>>>)    \* line 514
                        THEN
                            "SELECT model, AVG(mileage_km) as average_mileage FROM bmw_sales GROUP BY model ORDER BY average_mileage DESC"
                        ELSE
                            IF AnyIn(query, <<<<"r","e","g","i","ã","o">>, <<"r","e","g","i","õ","e","s">>>>)    \* line 516
                            THEN
                                "SELECT region, AVG(mileage_km) as average_mileage FROM bmw_sales GROUP BY region ORDER BY average_mileage DESC"
                            ELSE
                                IF AnyIn(query, <<<<"a","n","o">>, <<"a","n","o","s">>>>)    \* line 518
                                THEN
                                    "SELECT year, AVG(mileage_km) as average_mileage FROM bmw_sales GROUP BY year ORDER BY year"
                                ELSE
                                    "SELECT AVG(mileage_km) as average_mileage FROM bmw_sales"
                    ELSE
                        "SELECT AVG(mileage_km) as average_mileage FROM bmw_sales"
                ELSE None

\* line 526: elif any(word in query for word in ['soma', 'sum']) or (any( ...
\* The word total is enough to take the Sum group.
SumTest_TotalAlone(query) ==
    (AnyIn(query, <<<<"s","o","m","a">>, <<"s","u","m">>>>) \/ AnyIn(query, <<<<"t","o","t","a","l">>>>))

SumTest(query) ==
    (AnyIn(query, <<<<"s","o","m","a">>, <<"s","u","m">>>>) \/ (AnyIn(query, <<<<"t","o","t","a","l">>>>) /\ AnyIn(query, <<<<"v","e","n","d","a","s">>, <<"s","a","l","e","s">>, <<"u","n","i","d","a","d","e","s">>, <<"r","e","c","e","i","t","a">>, <<"r","e","v","e","n","u","e">>>>)))

SumGroup(query) ==
    IF AnyIn(query, <<<<"v","e","n","d","a","s">>, <<"s","a","l","e","s">>, <<"u","n","i","d","a","d","e","s">>>>)    \* line 527
    THEN
        IF AnyIn(query, <<<<"p","o","r">>, <<"p","o","r"," ","c","a","d","a">>, <<"p","o","r"," ","m","o","d","e","l","o">>, <<"p","o","r"," ","m","o","d","e","l","o","s">>, <<"p","o","r"," ","r","e","g","i","ã","o">>, <<"p","o","r"," ","r","e","g","i","õ","e","s">>, <<"p","o","r"," ","a","n","o">>, <<"p","o","r"," ","a","n","o","s">>>>)    \* line 529
        THEN
            IF AnyIn(query, <<<<"m","o","d","e","l","o">>, <<"m","o","d","e","l","o","s">>>>)    \* line 530
            THEN
                "SELECT model, SUM(sales_volume) as total_sales FROM bmw_sales GROUP BY model ORDER BY total_sales DESC"
            ELSE
                IF AnyIn(query, <<<<"r","e","g","i","ã","o">>, <<"r","e","g","i","õ","e","s">>>>)    \* line 532
                THEN
                    "SELECT region, SUM(sales_volume) as total_sales FROM bmw_sales GROUP BY region ORDER BY total_sales DESC"
                ELSE
                    IF AnyIn(query, <<<<"a","n","o">>, <<"a","n","o","s">>>>)    \* line 534
                    THEN
                        "SELECT year, SUM(sales_volume) as total_sales FROM bmw_sales GROUP BY year ORDER BY year"
                    ELSE
                        "SELECT SUM(sales_volume) as total_sales FROM bmw_sales"
        ELSE
            "SELECT SUM(sales_volume) as total_sales FROM bmw_sales"
    ELSE
        IF AnyIn(query, <<<<"r","e","c","e","i","t","a">>, <<"r","e","v","e","n","u","e">>, <<"f","a","t","u","r","a","m","e","n","t","o">>>>)    \* line 540
        THEN
            IF AnyIn(query, <<<<"p","o","r">>, <<"p","o","r"," ","c","a","d","a">>, <<"p","o","r"," ","m","o","d","e","l","o">>, <<"p","o","r"," ","m","o","d","e","l","o","s">>, <<"p","o","r"," ","r","e","g","i","ã","o">>, <<"p","o","r"," ","r","e","g","i","õ","e","s">>, <<"p","o","r"," ","a","n","o">>, <<"p","o","r"," ","a","n","o","s">>>>)    \* line 542
            THEN
                IF AnyIn(query, <<<<"m","o","d","e","l","o">>, <<"m","o","d","e","l","o","s">>>>)    \* line 543
                THEN
                    "SELECT model, TO_CHAR(SUM(price_usd * sales_volume), 'FM999,999,999,999,999') as total_revenue FROM bmw_sales GROUP BY model ORDER BY SUM(price_usd * sales_volume) DESC"
                ELSE
                    IF AnyIn(query, <<<<"r","e","g","i","ã","o">>, <<"r","e","g","i","õ","e","s">>>>)    \* line 545
                    THEN
                        "SELECT region, TO_CHAR(SUM(price_usd * sales_volume), 'FM999,999,999,999,999') as total_revenue FROM bmw_sales GROUP BY region ORDER BY SUM(price_usd * sales_volume) DESC"
                    ELSE
                        IF AnyIn(query, <<<<"a","n","o">>, <<"a","n","o","s">>>>)    \* line 547
                        THEN
                            "SELECT year, TO_CHAR(SUM(price_usd * sales_volume), 'FM999,999,999,999,999') as total_revenue FROM bmw_sales GROUP BY year ORDER BY year"
                        ELSE
                            "SELECT TO_CHAR(SUM(price_usd * sales_volume), 'FM999,999,999,999,999') as total_revenue FROM bmw_sales"
            ELSE
                "SELECT TO_CHAR(SUM(price_usd * sales_volume), 'FM999,999,999,999,999') as total_revenue FROM bmw_sales"
        ELSE
            IF AnyIn(query, <<<<"v","a","l","o","r">>, <<"v","a","l","u","e">>, <<"t","o","t","a","l","_","s","a","l","e","s">>>>)    \* line 553
            THEN
                IF AnyIn(query, <<<<"p","o","r">>, <<"p","o","r"," ","c","a","d","a">>, <<"p","o","r"," ","m","o","d","e","l","o">>, <<"p","o","r"," ","m","o","d","e","l","o","s">>, <<"p","o","r"," ","r","e","g","i","ã","o">>, <<"p","o","r"," ","r","e","g","i","õ","e","s">>, <<"p","o","r"," ","a","n","o">>, <<"p","o","r"," ","a","n","o","s">>>>)    \* line 555
                THEN
                    IF AnyIn(query, <<<<"m","o","d","e","l","o">>, <<"m","o","d","e","l","o","s">>>>)    \* line 556
                    THEN
                        "SELECT model, TO_CHAR(SUM(price_usd * sales_volume), 'FM999,999,999,999,999') as total_sales_value FROM bmw_sales GROUP BY model ORDER BY SUM(price_usd * sales_volume) DESC"
                    ELSE
                        IF AnyIn(query, <<<<"r","e","g","i","ã","o">>, <<"r","e","g","i","õ","e","s">>>>)    \* line 558
                        THEN
                            "SELECT region, TO_CHAR(SUM(price_usd * sales_volume), 'FM999,999,999,999,999') as total_sales_value FROM bmw_sales GROUP BY region ORDER BY SUM(price_usd * sales_volume) DESC"
                        ELSE
                            IF AnyIn(query, <<<<"a","n","o">>, <<"a","n","o","s">>>>)    \* line 560
                            THEN
                                "SELECT year, TO_CHAR(SUM(price_usd * sales_volume), 'FM999,999,999,999,999') as total_sales_value FROM bmw_sales GROUP BY year ORDER BY year"
                            ELSE
                                "SELECT TO_CHAR(SUM(price_usd * sales_volume), 'FM999,999,999,999,999') as total_sales_value FROM bmw_sales"
                ELSE
                    "SELECT TO_CHAR(SUM(price_usd * sales_volume), 'FM999,999,999,999,999') as total_sales_value FROM bmw_sales"
            ELSE
                IF AnyIn(query, <<<<"p","o","r">>, <<"p","o","r"," ","c","a","d","a">>, <<"p","o","r"," ","m","o","d","e","l","o">>, <<"p","o","r"," ","m","o","d","e","l","o","s">>, <<"p","o","r"," ","r","e","g","i","ã","o">>, <<"p","o","r"," ","r","e","g","i","õ","e","s">>, <<"p","o","r"," ","a","n","o">>, <<"p","o","r"," ","a","n","o","s">>>>)    \* line 568
                THEN
                    IF AnyIn(query, <<<<"m","o","d","e","l","o">>, <<"m","o","d","e","l","o","s">>>>)    \* line 569
                    THEN
                        "SELECT model, SUM(sales_volume) as total_sales FROM bmw_sales GROUP BY model ORDER BY total_sales DESC"
                    ELSE
                        IF AnyIn(query, <<<<"r","e","g","i","ã","o">>, <<"r","e","g","i","õ","e","s">>>>)    \* line 571
                        THEN
                            "SELECT region, SUM(sales_volume) as total_sales FROM bmw_sales GROUP BY region ORDER BY total_sales DESC"
                        ELSE
                            IF AnyIn(query, <<<<"a","n","o">>, <<"a","n","o","s">>>>)    \* line 573
                            THEN
                                "SELECT year, SUM(sales_volume) as total_sales FROM bmw_sales GROUP BY year ORDER BY year"
                            ELSE
                                "SELECT SUM(sales_volume) as total_sales FROM bmw_sales"
                ELSE
                    "SELECT SUM(sales_volume) as total_sales FROM bmw_sales"

\* line 581: elif any(word in query for word in ['mínimo', 'minimo', 'min ...
MinTest(query) ==
    AnyIn(query, <<<<"m","í","n","i","m","o">>, <<"m","i","n","i","m","o">>, <<"m","i","n">>, <<"m","e","n","o","r">>>>)

MinGroup(query) ==
    IF AnyIn(query, <<<<"p","r","e","ç","o">>, <<"p","r","e","c","o">>, <<"p","r","i","c","e">>>>)    \* line 582
    THEN
        "SELECT MIN(price_usd) as min_price FROM bmw_sales"
    ELSE
        IF AnyIn(query, <<<<"v","e","n","d","a","s">>, <<"s","a","l","e","s">>>>)    \* line 584
        THEN
            "SELECT MIN(sales_volume) as min_sales FROM bmw_sales"
        ELSE None

\* line 587: elif any(word in query for word in ['máximo', 'maximo', 'max ...
MaxTest(query) ==
    AnyIn(query, <<<<"m","á","x","i","m","o">>, <<"m","a","x","i","m","o">>, <<"m","a","x">>, <<"m","a","i","o","r">>>>)

MaxGroup(query) ==
    IF AnyIn(query, <<<<"p","r","e","ç","o">>, <<"p","r","e","c","o">>, <<"p","r","i","c","e">>>>)    \* line 588
    THEN
        "SELECT MAX(price_usd) as max_price FROM bmw_sales"
    ELSE
        IF AnyIn(query, <<<<"v","e","n","d","a","s">>, <<"s","a","l","e","s">>>>)    \* line 590
        THEN
            "SELECT MAX(sales_volume) as max_sales FROM bmw_sales"
        ELSE None

\* line 594: elif any(word in query for word in ['maior', 'melhor', 'top  ...
SuperlativeTest(query) ==
    AnyIn(query, <<<<"m","a","i","o","r">>, <<"m","e","l","h","o","r">>, <<"t","o","p"," ","1">>>>)

SuperlativeGroup(query) ==
    IF AnyIn(query, <<<<"r","e","g","i","ã","o">>, <<"r","e","g","i","õ","e","s">>>>)    \* line 595
    THEN
        "SELECT region, TO_CHAR(SUM(price_usd * sales_volume), 'FM999,999,999,999,999') as total_revenue FROM bmw_sales GROUP BY region ORDER BY SUM(price_usd * sales_volume) DESC LIMIT 1"
    ELSE
        IF AnyIn(query, <<<<"m","o","d","e","l","o">>, <<"m","o","d","e","l","o","s">>>>)    \* line 597
        THEN
            "SELECT model, TO_CHAR(SUM(price_usd * sales_volume), 'FM999,999,999,999,999') as total_revenue FROM bmw_sales GROUP BY model ORDER BY SUM(price_usd * sales_volume) DESC LIMIT 1"
        ELSE None

\* line 601: elif any(word in query for word in ['performance', 'desempen ...
PerformanceTest(query) ==
    AnyIn(query, <<<<"p","e","r","f","o","r","m","a","n","c","e">>, <<"d","e","s","e","m","p","e","n","h","o">>>>)

PerformanceGroup(query) ==
    IF AnyIn(query, <<<<"r","e","g","i","a","o">>, <<"r","e","g","i","o","e","s">>, <<"r","e","g","i","ã","o">>, <<"r","e","g","i","õ","e","s">>>>)    \* line 602
    THEN
        "SELECT * FROM analytics.kpi_regional_performance"
    ELSE
        IF AnyIn(query, <<<<"m","o","d","e","l","o">>, <<"m","o","d","e","l","o","s">>>>)    \* line 604
        THEN
            "SELECT * FROM analytics.kpi_model_performance"
        ELSE
            IF AnyIn(query, <<<<"c","o","r">>, <<"c","o","r","e","s">>>>)    \* line 606
            THEN
                "SELECT * FROM analytics.kpi_color_performance"
            ELSE
                IF AnyIn(query, <<<<"e","f","i","c","i","ê","n","c","i","a">>, <<"e","f","i","c","i","e","n","c","i","a">>>>)    \* line 608
                THEN
                    "SELECT * FROM analytics.kpi_model_efficiency"
                ELSE
                    IF AnyIn(query, <<<<"s","a","z","o","n","a","l">>, <<"s","a","z","o","n","a","l","i","d","a","d","e">>>>)    \* line 610
                    THEN
                        "SELECT * FROM analytics.kpi_seasonal_analysis"
                    ELSE None

\* line 614: elif any(word in query for word in ['ranking', 'classificaçã ...
RankingTest(query) ==
    AnyIn(query, <<<<"r","a","n","k","i","n","g">>, <<"c","l","a","s","s","i","f","i","c","a","ç","ã","o">>, <<"t","o","p">>>>)

RankingGroup(query) ==
    IF AnyIn(query, <<<<"m","o","d","e","l","o">>, <<"m","o","d","e","l","o","s">>>>)    \* line 615
    THEN
        IF AnyIn(query, <<<<"1","0">>, <<"d","e","z">>>>)    \* line 617
        THEN
            "SELECT * FROM analytics.kpi_top_10_models LIMIT 10"
        ELSE
            IF AnyIn(query, <<<<"5">>, <<"c","i","n","c","o">>>>)    \* line 619
            THEN
                "SELECT * FROM analytics.kpi_top_10_models LIMIT 5"
            ELSE
                "SELECT * FROM analytics.kpi_top_10_models LIMIT 10"
    ELSE
        IF AnyIn(query, <<<<"r","e","g","i","ã","o">>, <<"r","e","g","i","õ","e","s">>>>)    \* line 623
        THEN
            IF AnyIn(query, <<<<"5">>, <<"c","i","n","c","o">>>>)    \* line 625
            THEN
                "SELECT * FROM analytics.kpi_top_5_regions"
            ELSE
                IF AnyIn(query, <<<<"1","0">>, <<"d","e","z">>>>)    \* line 627
                THEN
                    "SELECT * FROM analytics.kpi_top_5_regions LIMIT 10"
                ELSE
                    "SELECT * FROM analytics.kpi_top_5_regions"
        ELSE None

\* line 633: elif any(word in query for word in ['ano', 'anos', 'year']): ...
YearTest(query) ==
    AnyIn(query, <<<<"a","n","o">>, <<"a","n","o","s">>, <<"y","e","a","r">>>>)

YearGroup(query) ==
    IF AnyIn(query, <<<<"m","o","d","e","l","o","s">>, <<"m","o","d","e","l","o">>, <<"v","e","n","d","a","s">>, <<"s","a","l","e","s">>>>)    \* line 634
    THEN
        IF AnyIn(query, <<<<"m","a","i","s">>, <<"m","a","i","o","r">>, <<"m","e","l","h","o","r">>, <<"t","o","p">>>>)    \* line 635
        THEN
            "SELECT year, COUNT(DISTINCT model) as total_models, SUM(sales_volume) as total_sales FROM bmw_sales GROUP BY year ORDER BY total_sales DESC LIMIT 5"
        ELSE
            "SELECT year, COUNT(DISTINCT model) as total_models, SUM(sales_volume) as total_sales FROM bmw_sales GROUP BY year ORDER BY year"
    ELSE
        IF AnyIn(query, <<<<"q","u","a","l">>, <<"q","u","a","i","s">>>>)    \* line 639
        THEN
            "SELECT year, COUNT(DISTINCT model) as total_models, SUM(sales_volume) as total_sales FROM bmw_sales GROUP BY year ORDER BY total_sales DESC LIMIT 1"
        ELSE
            IF AnyIn(query, <<<<"c","r","e","s","c","i","m","e","n","t","o">>, <<"g","r","o","w","t","h">>>>)    \* line 641
            THEN
                "SELECT * FROM analytics.kpi_annual_growth"
            ELSE
                IF AnyIn(query, <<<<"v","e","n","d","a","s">>, <<"s","a","l","e","s">>>>)    \* line 643
                THEN
                    "SELECT * FROM analytics.kpi_annual_sales"
                ELSE
                    "SELECT * FROM analytics.kpi_annual_sales"

\* line 649: elif any(word in query for word in ['preços', 'precos', 'pre ...
PriceTest(query) ==
    AnyIn(query, <<<<"p","r","e","ç","o","s">>, <<"p","r","e","c","o","s">>, <<"p","r","e","ç","o">>, <<"p","r","e","c","o">>>>)

PriceGroup(query) ==
    IF AnyIn(query, <<<<"a","n","á","l","i","s","e">>, <<"a","n","a","l","i","s","e">>, <<"s","e","g","m","e","n","t","a","ç","ã","o">>, <<"s","e","g","m","e","n","t","a","c","a","o">>>>)    \* line 650
    THEN
        "SELECT * FROM analytics.kpi_price_analysis"
    ELSE
        IF AnyIn(query, <<<<"c","o","r","r","e","l","a","ç","ã","o">>, <<"c","o","r","r","e","l","a","c","a","o">>, <<"v","o","l","u","m","e">>>>)    \* line 652
        THEN
            "SELECT * FROM analytics.kpi_price_volume_correlation"
        ELSE
            "SELECT * FROM analytics.kpi_price_analysis"

\* line 657: elif any(word in query for word in ['cor', 'cores']): ...
ColorTest(query) ==
    AnyIn(query, <<<<"c","o","r">>, <<"c","o","r","e","s">>>>)

ColorGroup(query) ==
    "SELECT * FROM analytics.kpi_color_performance"

\* line 660: elif any(word in query for word in ['eficiência', 'eficienci ...
EfficiencyTest(query) ==
    AnyIn(query, <<<<"e","f","i","c","i","ê","n","c","i","a">>, <<"e","f","i","c","i","e","n","c","i","a">>>>)

EfficiencyGroup(query) ==
    "SELECT * FROM analytics.kpi_model_efficiency"

\* line 663: elif any(word in query for word in ['sazonal', 'sazonalidade ...
SeasonalTest(query) ==
    AnyIn(query, <<<<"s","a","z","o","n","a","l">>, <<"s","a","z","o","n","a","l","i","d","a","d","e">>>>)

SeasonalGroup(query) ==
    "SELECT * FROM analytics.kpi_seasonal_analysis"

\* line 666: elif any(word in query for word in ['top performers', 'melho ...
TopPerformersTest(query) ==
    AnyIn(query, <<<<"t","o","p"," ","p","e","r","f","o","r","m","e","r","s">>, <<"m","e","l","h","o","r","e","s"," ","p","e","r","f","o","r","m","e","r","s">>, <<"m","ú","l","t","i","p","l","a","s">>, <<"m","u","l","t","i","p","l","a","s">>>>)

TopPerformersGroup(query) ==
    "SELECT * FROM analytics.kpi_top_performers"

\* line 669: elif any(word in query for word in ['penetração', 'penetraca ...
MarketTest(query) ==
    AnyIn(query, <<<<"p","e","n","e","t","r","a","ç","ã","o">>, <<"p","e","n","e","t","r","a","c","a","o">>, <<"m","e","r","c","a","d","o">>, <<"m","a","r","k","e","t">>>>)

MarketGroup(query) ==
    "SELECT * FROM analytics.kpi_market_penetration"

\* line 672: elif any(word in query for word in ['temporal', 'tempo', 'hi ...
TemporalTest(query) ==
    AnyIn(query, <<<<"t","e","m","p","o","r","a","l">>, <<"t","e","m","p","o">>, <<"h","i","s","t","ó","r","i","c","o">>, <<"h","i","s","t","o","r","i","c","o">>>>)

TemporalGroup(query) ==
    "SELECT * FROM analytics.kpi_temporal_trends"

\* The Year group is tested before the Sum group.
_generate_custom_query_improved_YearBeforeSum(query) ==
    IF CountTest(query) THEN CountGroup(query)
    ELSE IF AverageTest(query) THEN AverageGroup(query)
    ELSE IF YearTest(query) THEN YearGroup(query)
    ELSE IF SumTest(query) THEN SumGroup(query)
    ELSE IF MinTest(query) THEN MinGroup(query)
    ELSE IF MaxTest(query) THEN MaxGroup(query)
    ELSE IF SuperlativeTest(query) THEN SuperlativeGroup(query)
    ELSE IF PerformanceTest(query) THEN PerformanceGroup(query)
    ELSE IF RankingTest(query) THEN RankingGroup(query)
    ELSE IF PriceTest(query) THEN PriceGroup(query)
    ELSE IF ColorTest(query) THEN ColorGroup(query)
    ELSE IF EfficiencyTest(query) THEN EfficiencyGroup(query)
    ELSE IF SeasonalTest(query) THEN SeasonalGroup(query)
    ELSE IF TopPerformersTest(query) THEN TopPerformersGroup(query)
    ELSE IF MarketTest(query) THEN MarketGroup(query)
    ELSE IF TemporalTest(query) THEN TemporalGroup(query)
    ELSE None

\* A group whose body ends without a query lets the later groups try.
_generate_custom_query_improved_FallsThrough(query) ==
    IF CountTest(query) /\ CountGroup(query) # None THEN CountGroup(query)
    ELSE IF AverageTest(query) /\ AverageGroup(query) # None THEN AverageGroup(query)
    ELSE IF SumTest(query) /\ SumGroup(query) # None THEN SumGroup(query)
    ELSE IF MinTest(query) /\ MinGroup(query) # None THEN MinGroup(query)
    ELSE IF MaxTest(query) /\ MaxGroup(query) # None THEN MaxGroup(query)
    ELSE IF SuperlativeTest(query) /\ SuperlativeGroup(query) # None THEN SuperlativeGroup(query)
    ELSE IF PerformanceTest(query) /\ PerformanceGroup(query) # None THEN PerformanceGroup(query)
    ELSE IF RankingTest(query) /\ RankingGroup(query) # None THEN RankingGroup(query)
    ELSE IF YearTest(query) /\ YearGroup(query) # None THEN YearGroup(query)
    ELSE IF PriceTest(query) /\ PriceGroup(query) # None THEN PriceGroup(query)
    ELSE IF ColorTest(query) /\ ColorGroup(query) # None THEN ColorGroup(query)
    ELSE IF EfficiencyTest(query) /\ EfficiencyGroup(query) # None THEN EfficiencyGroup(query)
    ELSE IF SeasonalTest(query) /\ SeasonalGroup(query) # None THEN SeasonalGroup(query)
    ELSE IF TopPerformersTest(query) /\ TopPerformersGroup(query) # None THEN TopPerformersGroup(query)
    ELSE IF MarketTest(query) /\ MarketGroup(query) # None THEN MarketGroup(query)
    ELSE IF TemporalTest(query) /\ TemporalGroup(query) # None THEN TemporalGroup(query)
    ELSE None

_generate_custom_query_improved(query) ==
    IF CountTest(query) THEN CountGroup(query)
    ELSE IF AverageTest(query) THEN AverageGroup(query)
    ELSE IF SumTest(query) THEN SumGroup(query)
    ELSE IF MinTest(query) THEN MinGroup(query)
    ELSE IF MaxTest(query) THEN MaxGroup(query)
    ELSE IF SuperlativeTest(query) THEN SuperlativeGroup(query)
    ELSE IF PerformanceTest(query) THEN PerformanceGroup(query)
    ELSE IF RankingTest(query) THEN RankingGroup(query)
    ELSE IF YearTest(query) THEN YearGroup(query)
    ELSE IF PriceTest(query) THEN PriceGroup(query)
    ELSE IF ColorTest(query) THEN ColorGroup(query)
    ELSE IF EfficiencyTest(query) THEN EfficiencyGroup(query)
    ELSE IF SeasonalTest(query) THEN SeasonalGroup(query)
    ELSE IF TopPerformersTest(query) THEN TopPerformersGroup(query)
    ELSE IF MarketTest(query) THEN MarketGroup(query)
    ELSE IF TemporalTest(query) THEN TemporalGroup(query)
    ELSE None

\* _get_suggestions_improved(): the static list of example queries.
_get_suggestions_improved == <<
    <<"M","o","s","t","r","e"," ","o"," ","d","a","s","h","b","o","a","r","d"," ","e","x","e","c","u","t","i","v","o">>,    \* Mostre o dashboard executivo
    <<"Q","u","a","i","s"," ","s","ã","o"," ","a","s"," ","t","o","p"," ","5"," ","r","e","g","i","õ","e","s","?">>,    \* Quais são as top 5 regiões?
    <<"Q","u","a","i","s"," ","s","ã","o"," ","o","s"," ","t","o","p"," ","1","0"," ","m","o","d","e","l","o","s","?">>,    \* Quais são os top 10 modelos?
    <<"M","o","s","t","r","e"," ","a","s"," ","v","e","n","d","a","s"," ","a","n","u","a","i","s">>,    \* Mostre as vendas anuais
    <<"Q","u","a","l"," ","a"," ","p","e","r","f","o","r","m","a","n","c","e"," ","p","o","r"," ","r","e","g","i","ã","o","?">>,    \* Qual a performance por região?
    <<"Q","u","a","l"," ","o"," ","c","r","e","s","c","i","m","e","n","t","o"," ","a","n","u","a","l","?">>,    \* Qual o crescimento anual?
    <<"C","o","n","t","e"," ","o"," ","t","o","t","a","l"," ","d","e"," ","r","e","g","i","s","t","r","o","s">>,    \* Conte o total de registros
    <<"Q","u","a","l"," ","a"," ","m","é","d","i","a"," ","d","e"," ","p","r","e","ç","o","s","?">>,    \* Qual a média de preços?
    <<"S","o","m","a"," ","t","o","t","a","l"," ","d","e"," ","v","e","n","d","a","s">>,    \* Soma total de vendas
    <<"Q","u","a","l"," ","a"," ","r","e","g","i","ã","o"," ","c","o","m"," ","m","a","i","o","r"," ","f","a","t","u","r","a","m","e","n","t","o","?">>,    \* Qual a região com maior faturamento?
    <<"T","o","t","a","l"," ","d","e"," ","v","e","n","d","a","s"," ","p","o","r"," ","m","o","d","e","l","o">>,    \* Total de vendas por modelo
    <<"M","o","s","t","r","e"," ","a"," ","p","e","r","f","o","r","m","a","n","c","e"," ","p","o","r"," ","c","o","m","b","u","s","t","í","v","e","l">>,    \* Mostre a performance por combustível
    <<"Q","u","a","l"," ","o"," ","m","o","d","e","l","o"," ","m","a","i","s"," ","v","e","n","d","i","d","o","?">>,    \* Qual o modelo mais vendido?
    <<"C","o","n","t","e"," ","q","u","a","n","t","a","s"," ","r","e","g","i","õ","e","s"," ","t","e","m","o","s">>,    \* Conte quantas regiões temos
    <<"Q","u","a","l"," ","o"," ","p","r","e","ç","o"," ","m","á","x","i","m","o","?">>,    \* Qual o preço máximo?
    <<"Q","u","a","l"," ","a","n","o"," ","t","e","m"," ","m","a","i","s"," ","m","o","d","e","l","o","s"," ","v","e","n","d","i","d","o","s","?">>,    \* Qual ano tem mais modelos vendidos?
    <<"Q","u","a","i","s"," ","s","ã","o"," ","o","s"," ","a","n","o","s"," ","c","o","m"," ","m","a","i","s"," ","v","e","n","d","a","s","?">>,    \* Quais são os anos com mais vendas?
    <<"M","o","s","t","r","e"," ","v","e","n","d","a","s"," ","p","o","r"," ","a","n","o">>,    \* Mostre vendas por ano
    <<"Q","u","a","l"," ","o"," ","m","e","l","h","o","r"," ","a","n","o"," ","e","m"," ","v","e","n","d","a","s","?">>,    \* Qual o melhor ano em vendas?
    <<"A","n","á","l","i","s","e"," ","d","e"," ","p","r","e","ç","o","s"," ","p","o","r"," ","s","e","g","m","e","n","t","o">>,    \* Análise de preços por segmento
    <<"Q","u","a","i","s"," ","c","o","r","e","s"," ","s","ã","o"," ","m","a","i","s"," ","v","e","n","d","i","d","a","s","?">>,    \* Quais cores são mais vendidas?
    <<"M","o","d","e","l","o","s"," ","m","a","i","s"," ","e","f","i","c","i","e","n","t","e","s">>,    \* Modelos mais eficientes
    <<"A","n","á","l","i","s","e"," ","s","a","z","o","n","a","l"," ","p","o","r"," ","r","e","g","i","ã","o">>,    \* Análise sazonal por região
    <<"T","o","p"," ","p","e","r","f","o","r","m","e","r","s"," ","p","o","r"," ","m","ú","l","t","i","p","l","a","s"," ","m","é","t","r","i","c","a","s">>,    \* Top performers por múltiplas métricas
    <<"C","o","r","r","e","l","a","ç","ã","o"," ","p","r","e","ç","o","-","v","o","l","u","m","e">>,    \* Correlação preço-volume
    <<"P","e","n","e","t","r","a","ç","ã","o"," ","d","e"," ","m","e","r","c","a","d","o"," ","p","o","r"," ","r","e","g","i","ã","o">>,    \* Penetração de mercado por região
    <<"T","e","n","d","ê","n","c","i","a","s"," ","t","e","m","p","o","r","a","i","s"," ","c","o","m","p","l","e","t","a","s">>,    \* Tendências temporais completas
    <<"P","e","r","f","o","r","m","a","n","c","e"," ","p","o","r"," ","c","o","r">>,    \* Performance por cor
    <<"E","f","i","c","i","ê","n","c","i","a"," ","d","o","s"," ","m","o","d","e","l","o","s">>,    \* Eficiência dos modelos
    <<"C","r","e","s","c","i","m","e","n","t","o"," ","p","o","r"," ","r","e","g","i","ã","o">>,    \* Crescimento por região
    <<"D","i","v","e","r","s","i","d","a","d","e"," ","d","e"," ","p","r","o","d","u","t","o","s"," ","p","o","r"," ","r","e","g","i","ã","o">>    \* Diversidade de produtos por região
>>


\* The characters of each SQL statement _generate_custom_query_improved
\* returns; the empty string for None.
SqlText(sql) ==
    CASE sql = "SELECT COUNT(DISTINCT region) as total_regions FROM bmw_sales" ->
           <<"S","E","L","E","C","T"," ","C","O","U","N","T","(","D","I","S","T","I","N","C","T"," ","r","e","g","i","o","n",")"," ","a","s"," ","t","o","t","a","l","_","r","e","g","i","o","n","s"," ","F","R","O","M"," ","b","m","w","_","s","a","l","e","s">>
      [] sql = "SELECT COUNT(DISTINCT model) as total_models FROM bmw_sales" ->
           <<"S","E","L","E","C","T"," ","C","O","U","N","T","(","D","I","S","T","I","N","C","T"," ","m","o","d","e","l",")"," ","a","s"," ","t","o","t","a","l","_","m","o","d","e","l","s"," ","F","R","O","M"," ","b","m","w","_","s","a","l","e","s">>
      [] sql = "SELECT COUNT(DISTINCT country) as total_countries FROM bmw_sales" ->
           <<"S","E","L","E","C","T"," ","C","O","U","N","T","(","D","I","S","T","I","N","C","T"," ","c","o","u","n","t","r","y",")"," ","a","s"," ","t","o","t","a","l","_","c","o","u","n","t","r","i","e","s"," ","F","R","O","M"," ","b","m","w","_","s","a","l","e","s">>
      [] sql = "SELECT AVG(price_usd) as average_price FROM bmw_sales" ->
           <<"S","E","L","E","C","T"," ","A","V","G","(","p","r","i","c","e","_","u","s","d",")"," ","a","s"," ","a","v","e","r","a","g","e","_","p","r","i","c","e"," ","F","R","O","M"," ","b","m","w","_","s","a","l","e","s">>
      [] sql = "SELECT COUNT(*) as total_records FROM bmw_sales" ->
           <<"S","E","L","E","C","T"," ","C","O","U","N","T","(","*",")"," ","a","s"," ","t","o","t","a","l","_","r","e","c","o","r","d","s"," ","F","R","O","M"," ","b","m","w","_","s","a","l","e","s">>
      [] sql = "SELECT model, AVG(price_usd) as average_price FROM bmw_sales GROUP BY model ORDER BY average_price DESC" ->
           <<"S","E","L","E","C","T"," ","m","o","d","e","l",","," ","A","V","G","(","p","r","i","c","e","_","u","s","d",")"," ","a","s"," ","a","v","e","r","a","g","e","_","p","r","i","c","e"," ","F","R","O","M"," ","b","m","w","_","s","a","l","e","s"," ","G","R","O","U","P"," ","B","Y"," ","m","o","d","e","l"," ","O","R","D","E","R"," ","B","Y"," ","a","v","e","r","a","g","e","_","p","r","i","c","e"," ","D","E","S","C">>
      [] sql = "SELECT AVG(sales_volume) as average_sales FROM bmw_sales" ->
           <<"S","E","L","E","C","T"," ","A","V","G","(","s","a","l","e","s","_","v","o","l","u","m","e",")"," ","a","s"," ","a","v","e","r","a","g","e","_","s","a","l","e","s"," ","F","R","O","M"," ","b","m","w","_","s","a","l","e","s">>
      [] sql = "SELECT SUM(sales_volume) as total_sales FROM bmw_sales" ->
           <<"S","E","L","E","C","T"," ","S","U","M","(","s","a","l","e","s","_","v","o","l","u","m","e",")"," ","a","s"," ","t","o","t","a","l","_","s","a","l","e","s"," ","F","R","O","M"," ","b","m","w","_","s","a","l","e","s">>
      [] sql = "SELECT MIN(price_usd) as min_price FROM bmw_sales" ->
           <<"S","E","L","E","C","T"," ","M","I","N","(","p","r","i","c","e","_","u","s","d",")"," ","a","s"," ","m","i","n","_","p","r","i","c","e"," ","F","R","O","M"," ","b","m","w","_","s","a","l","e","s">>
      [] sql = "SELECT region, AVG(price_usd) as average_price FROM bmw_sales GROUP BY region ORDER BY average_price DESC" ->
           <<"S","E","L","E","C","T"," ","r","e","g","i","o","n",","," ","A","V","G","(","p","r","i","c","e","_","u","s","d",")"," ","a","s"," ","a","v","e","r","a","g","e","_","p","r","i","c","e"," ","F","R","O","M"," ","b","m","w","_","s","a","l","e","s"," ","G","R","O","U","P"," ","B","Y"," ","r","e","g","i","o","n"," ","O","R","D","E","R"," ","B","Y"," ","a","v","e","r","a","g","e","_","p","r","i","c","e"," ","D","E","S","C">>
      [] sql = "SELECT model, AVG(sales_volume) as average_sales FROM bmw_sales GROUP BY model ORDER BY average_sales DESC" ->
           <<"S","E","L","E","C","T"," ","m","o","d","e","l",","," ","A","V","G","(","s","a","l","e","s","_","v","o","l","u","m","e",")"," ","a","s"," ","a","v","e","r","a","g","e","_","s","a","l","e","s"," ","F","R","O","M"," ","b","m","w","_","s","a","l","e","s"," ","G","R","O","U","P"," ","B","Y"," ","m","o","d","e","l"," ","O","R","D","E","R"," ","B","Y"," ","a","v","e","r","a","g","e","_","s","a","l","e","s"," ","D","E","S","C">>
      [] sql = "SELECT AVG(price_usd * sales_volume) as average_revenue FROM bmw_sales" ->
           <<"S","E","L","E","C","T"," ","A","V","G","(","p","r","i","c","e","_","u","s","d"," ","*"," ","s","a","l","e","s","_","v","o","l","u","m","e",")"," ","a","s"," ","a","v","e","r","a","g","e","_","r","e","v","e","n","u","e"," ","F","R","O","M"," ","b","m","w","_","s","a","l","e","s">>
      [] sql = "SELECT model, SUM(sales_volume) as total_sales FROM bmw_sales GROUP BY model ORDER BY total_sales DESC" ->
           <<"S","E","L","E","C","T"," ","m","o","d","e","l",","," ","S","U","M","(","s","a","l","e","s","_","v","o","l","u","m","e",")"," ","a","s"," ","t","o","t","a","l","_","s","a","l","e","s"," ","F","R","O","M"," ","b","m","w","_","s","a","l","e","s"," ","G","R","O","U","P"," ","B","Y"," ","m","o","d","e","l"," ","O","R","D","E","R"," ","B","Y"," ","t","o","t","a","l","_","s","a","l","e","s"," ","D","E","S","C">>
      [] sql = "SELECT TO_CHAR(SUM(price_usd * sales_volume), 'FM999,999,999,999,999') as total_revenue FROM bmw_sales" ->
           <<"S","E","L","E","C","T"," ","T","O","_","C","H","A","R","(","S","U","M","(","p","r","i","c","e","_","u","s","d"," ","*"," ","s","a","l","e","s","_","v","o","l","u","m","e",")",","," ","'","F","M","9","9","9",",","9","9","9",",","9","9","9",",","9","9","9",",","9","9","9","'",")"," ","a","s"," ","t","o","t","a","l","_","r","e","v","e","n","u","e"," ","F","R","O","M"," ","b","m","w","_","s","a","l","e","s">>
      [] sql = "SELECT MIN(sales_volume) as min_sales FROM bmw_sales" ->
           <<"S","E","L","E","C","T"," ","M","I","N","(","s","a","l","e","s","_","v","o","l","u","m","e",")"," ","a","s"," ","m","i","n","_","s","a","l","e","s"," ","F","R","O","M"," ","b","m","w","_","s","a","l","e","s">>
      [] sql = "SELECT MAX(price_usd) as max_price FROM bmw_sales" ->
           <<"S","E","L","E","C","T"," ","M","A","X","(","p","r","i","c","e","_","u","s","d",")"," ","a","s"," ","m","a","x","_","p","r","i","c","e"," ","F","R","O","M"," ","b","m","w","_","s","a","l","e","s">>
      [] sql = "SELECT year, AVG(price_usd) as average_price FROM bmw_sales GROUP BY year ORDER BY year" ->
           <<"S","E","L","E","C","T"," ","y","e","a","r",","," ","A","V","G","(","p","r","i","c","e","_","u","s","d",")"," ","a","s"," ","a","v","e","r","a","g","e","_","p","r","i","c","e"," ","F","R","O","M"," ","b","m","w","_","s","a","l","e","s"," ","G","R","O","U","P"," ","B","Y"," ","y","e","a","r"," ","O","R","D","E","R"," ","B","Y"," ","y","e","a","r">>
      [] sql = "SELECT region, AVG(sales_volume) as average_sales FROM bmw_sales GROUP BY region ORDER BY average_sales DESC" ->
           <<"S","E","L","E","C","T"," ","r","e","g","i","o","n",","," ","A","V","G","(","s","a","l","e","s","_","v","o","l","u","m","e",")"," ","a","s"," ","a","v","e","r","a","g","e","_","s","a","l","e","s"," ","F","R","O","M"," ","b","m","w","_","s","a","l","e","s"," ","G","R","O","U","P"," ","B","Y"," ","r","e","g","i","o","n"," ","O","R","D","E","R"," ","B","Y"," ","a","v","e","r","a","g","e","_","s","a","l","e","s"," ","D","E","S","C">>
      [] sql = "SELECT model, AVG(price_usd * sales_volume) as average_revenue FROM bmw_sales GROUP BY model ORDER BY average_revenue DESC" ->
           <<"S","E","L","E","C","T"," ","m","o","d","e","l",","," ","A","V","G","(","p","r","i","c","e","_","u","s","d"," ","*"," ","s","a","l","e","s","_","v","o","l","u","m","e",")"," ","a","s"," ","a","v","e","r","a","g","e","_","r","e","v","e","n","u","e"," ","F","R","O","M"," ","b","m","w","_","s","a","l","e","s"," ","G","R","O","U","P"," ","B","Y"," ","m","o","d","e","l"," ","O","R","D","E","R"," ","B","Y"," ","a","v","e","r","a","g","e","_","r","e","v","e","n","u","e"," ","D","E","S","C">>
      [] sql = "SELECT AVG(mileage_km) as average_mileage FROM bmw_sales" ->
           <<"S","E","L","E","C","T"," ","A","V","G","(","m","i","l","e","a","g","e","_","k","m",")"," ","a","s"," ","a","v","e","r","a","g","e","_","m","i","l","e","a","g","e"," ","F","R","O","M"," ","b","m","w","_","s","a","l","e","s">>
      [] sql = "SELECT region, SUM(sales_volume) as total_sales FROM bmw_sales GROUP BY region ORDER BY total_sales DESC" ->
           <<"S","E","L","E","C","T"," ","r","e","g","i","o","n",","," ","S","U","M","(","s","a","l","e","s","_","v","o","l","u","m","e",")"," ","a","s"," ","t","o","t","a","l","_","s","a","l","e","s"," ","F","R","O","M"," ","b","m","w","_","s","a","l","e","s"," ","G","R","O","U","P"," ","B","Y"," ","r","e","g","i","o","n"," ","O","R","D","E","R"," ","B","Y"," ","t","o","t","a","l","_","s","a","l","e","s"," ","D","E","S","C">>
      [] sql = "SELECT model, TO_CHAR(SUM(price_usd * sales_volume), 'FM999,999,999,999,999') as total_revenue FROM bmw_sales GROUP BY model ORDER BY SUM(price_usd * sales_volume) DESC" ->
           <<"S","E","L","E","C","T"," ","m","o","d","e","l",","," ","T","O","_","C","H","A","R","(","S","U","M","(","p","r","i","c","e","_","u","s","d"," ","*"," ","s","a","l","e","s","_","v","o","l","u","m","e",")",","," ","'","F","M","9","9","9",",","9","9","9",",","9","9","9",",","9","9","9",",","9","9","9","'",")"," ","a","s"," ","t","o","t","a","l","_","r","e","v","e","n","u","e"," ","F","R","O","M"," ","b","m","w","_","s","a","l","e","s"," ","G","R","O","U","P"," ","B","Y"," ","m","o","d","e","l"," ","O","R","D","E","R"," ","B","Y"," ","S","U","M","(","p","r","i","c","e","_","u","s","d"," ","*"," ","s","a","l","e","s","_","v","o","l","u","m","e",")"," ","D","E","S","C">>
      [] sql = "SELECT TO_CHAR(SUM(price_usd * sales_volume), 'FM999,999,999,999,999') as total_sales_value FROM bmw_sales" ->
           <<"S","E","L","E","C","T"," ","T","O","_","C","H","A","R","(","S","U","M","(","p","r","i","c","e","_","u","s","d"," ","*"," ","s","a","l","e","s","_","v","o","l","u","m","e",")",","," ","'","F","M","9","9","9",",","9","9","9",",","9","9","9",",","9","9","9",",","9","9","9","'",")"," ","a","s"," ","t","o","t","a","l","_","s","a","l","e","s","_","v","a","l","u","e"," ","F","R","O","M"," ","b","m","w","_","s","a","l","e","s">>
      [] sql = "SELECT MAX(sales_volume) as max_sales FROM bmw_sales" ->
           <<"S","E","L","E","C","T"," ","M","A","X","(","s","a","l","e","s","_","v","o","l","u","m","e",")"," ","a","s"," ","m","a","x","_","s","a","l","e","s"," ","F","R","O","M"," ","b","m","w","_","s","a","l","e","s">>
      [] sql = "SELECT region, TO_CHAR(SUM(price_usd * sales_volume), 'FM999,999,999,999,999') as total_revenue FROM bmw_sales GROUP BY region ORDER BY SUM(price_usd * sales_volume) DESC LIMIT 1" ->
           <<"S","E","L","E","C","T"," ","r","e","g","i","o","n",","," ","T","O","_","C","H","A","R","(","S","U","M","(","p","r","i","c","e","_","u","s","d"," ","*"," ","s","a","l","e","s","_","v","o","l","u","m","e",")",","," ","'","F","M","9","9","9",",","9","9","9",",","9","9","9",",","9","9","9",",","9","9","9","'",")"," ","a","s"," ","t","o","t","a","l","_","r","e","v","e","n","u","e"," ","F","R","O","M"," ","b","m","w","_","s","a","l","e","s"," ","G","R","O","U","P"," ","B","Y"," ","r","e","g","i","o","n"," ","O","R","D","E","R"," ","B","Y"," ","S","U","M","(","p","r","i","c","e","_","u","s","d"," ","*"," ","s","a","l","e","s","_","v","o","l","u","m","e",")"," ","D","E","S","C"," ","L","I","M","I","T"," ","1">>
      [] sql = "SELECT year, AVG(sales_volume) as average_sales FROM bmw_sales GROUP BY year ORDER BY year" ->
           <<"S","E","L","E","C","T"," ","y","e","a","r",","," ","A","V","G","(","s","a","l","e","s","_","v","o","l","u","m","e",")"," ","a","s"," ","a","v","e","r","a","g","e","_","s","a","l","e","s"," ","F","R","O","M"," ","b","m","w","_","s","a","l","e","s"," ","G","R","O","U","P"," ","B","Y"," ","y","e","a","r"," ","O","R","D","E","R"," ","B","Y"," ","y","e","a","r">>
      [] sql = "SELECT region, AVG(price_usd * sales_volume) as average_revenue FROM bmw_sales GROUP BY region ORDER BY average_revenue DESC" ->
           <<"S","E","L","E","C","T"," ","r","e","g","i","o","n",","," ","A","V","G","(","p","r","i","c","e","_","u","s","d"," ","*"," ","s","a","l","e","s","_","v","o","l","u","m","e",")"," ","a","s"," ","a","v","e","r","a","g","e","_","r","e","v","e","n","u","e"," ","F","R","O","M"," ","b","m","w","_","s","a","l","e","s"," ","G","R","O","U","P"," ","B","Y"," ","r","e","g","i","o","n"," ","O","R","D","E","R"," ","B","Y"," ","a","v","e","r","a","g","e","_","r","e","v","e","n","u","e"," ","D","E","S","C">>
      [] sql = "SELECT model, AVG(mileage_km) as average_mileage FROM bmw_sales GROUP BY model ORDER BY average_mileage DESC" ->
           <<"S","E","L","E","C","T"," ","m","o","d","e","l",","," ","A","V","G","(","m","i","l","e","a","g","e","_","k","m",")"," ","a","s"," ","a","v","e","r","a","g","e","_","m","i","l","e","a","g","e"," ","F","R","O","M"," ","b","m","w","_","s","a","l","e","s"," ","G","R","O","U","P"," ","B","Y"," ","m","o","d","e","l"," ","O","R","D","E","R"," ","B","Y"," ","a","v","e","r","a","g","e","_","m","i","l","e","a","g","e"," ","D","E","S","C">>
      [] sql = "SELECT year, SUM(sales_volume) as total_sales FROM bmw_sales GROUP BY year ORDER BY year" ->
           <<"S","E","L","E","C","T"," ","y","e","a","r",","," ","S","U","M","(","s","a","l","e","s","_","v","o","l","u","m","e",")"," ","a","s"," ","t","o","t","a","l","_","s","a","l","e","s"," ","F","R","O","M"," ","b","m","w","_","s","a","l","e","s"," ","G","R","O","U","P"," ","B","Y"," ","y","e","a","r"," ","O","R","D","E","R"," ","B","Y"," ","y","e","a","r">>
      [] sql = "SELECT region, TO_CHAR(SUM(price_usd * sales_volume), 'FM999,999,999,999,999') as total_revenue FROM bmw_sales GROUP BY region ORDER BY SUM(price_usd * sales_volume) DESC" ->
           <<"S","E","L","E","C","T"," ","r","e","g","i","o","n",","," ","T","O","_","C","H","A","R","(","S","U","M","(","p","r","i","c","e","_","u","s","d"," ","*"," ","s","a","l","e","s","_","v","o","l","u","m","e",")",","," ","'","F","M","9","9","9",",","9","9","9",",","9","9","9",",","9","9","9",",","9","9","9","'",")"," ","a","s"," ","t","o","t","a","l","_","r","e","v","e","n","u","e"," ","F","R","O","M"," ","b","m","w","_","s","a","l","e","s"," ","G","R","O","U","P"," ","B","Y"," ","r","e","g","i","o","n"," ","O","R","D","E","R"," ","B","Y"," ","S","U","M","(","p","r","i","c","e","_","u","s","d"," ","*"," ","s","a","l","e","s","_","v","o","l","u","m","e",")"," ","D","E","S","C">>
      [] sql = "SELECT model, TO_CHAR(SUM(price_usd * sales_volume), 'FM999,999,999,999,999') as total_sales_value FROM bmw_sales GROUP BY model ORDER BY SUM(price_usd * sales_volume) DESC" ->
           <<"S","E","L","E","C","T"," ","m","o","d","e","l",","," ","T","O","_","C","H","A","R","(","S","U","M","(","p","r","i","c","e","_","u","s","d"," ","*"," ","s","a","l","e","s","_","v","o","l","u","m","e",")",","," ","'","F","M","9","9","9",",","9","9","9",",","9","9","9",",","9","9","9",",","9","9","9","'",")"," ","a","s"," ","t","o","t","a","l","_","s","a","l","e","s","_","v","a","l","u","e"," ","F","R","O","M"," ","b","m","w","_","s","a","l","e","s"," ","G","R","O","U","P"," ","B","Y"," ","m","o","d","e","l"," ","O","R","D","E","R"," ","B","Y"," ","S","U","M","(","p","r","i","c","e","_","u","s","d"," ","*"," ","s","a","l","e","s","_","v","o","l","u","m","e",")"," ","D","E","S","C">>
      [] sql = "SELECT model, TO_CHAR(SUM(price_usd * sales_volume), 'FM999,999,999,999,999') as total_revenue FROM bmw_sales GROUP BY model ORDER BY SUM(price_usd * sales_volume) DESC LIMIT 1" ->
           <<"S","E","L","E","C","T"," ","m","o","d","e","l",","," ","T","O","_","C","H","A","R","(","S","U","M","(","p","r","i","c","e","_","u","s","d"," ","*"," ","s","a","l","e","s","_","v","o","l","u","m","e",")",","," ","'","F","M","9","9","9",",","9","9","9",",","9","9","9",",","9","9","9",",","9","9","9","'",")"," ","a","s"," ","t","o","t","a","l","_","r","e","v","e","n","u","e"," ","F","R","O","M"," ","b","m","w","_","s","a","l","e","s"," ","G","R","O","U","P"," ","B","Y"," ","m","o","d","e","l"," ","O","R","D","E","R"," ","B","Y"," ","S","U","M","(","p","r","i","c","e","_","u","s","d"," ","*"," ","s","a","l","e","s","_","v","o","l","u","m","e",")"," ","D","E","S","C"," ","L","I","M","I","T"," ","1">>
      [] sql = "SELECT * FROM analytics.kpi_regional_performance" ->
           <<"S","E","L","E","C","T"," ","*"," ","F","R","O","M"," ","a","n","a","l","y","t","i","c","s",".","k","p","i","_","r","e","g","i","o","n","a","l","_","p","e","r","f","o","r","m","a","n","c","e">>
      [] sql = "SELECT year, AVG(price_usd * sales_volume) as average_revenue FROM bmw_sales GROUP BY year ORDER BY year" ->
           <<"S","E","L","E","C","T"," ","y","e","a","r",","," ","A","V","G","(","p","r","i","c","e","_","u","s","d"," ","*"," ","s","a","l","e","s","_","v","o","l","u","m","e",")"," ","a","s"," ","a","v","e","r","a","g","e","_","r","e","v","e","n","u","e"," ","F","R","O","M"," ","b","m","w","_","s","a","l","e","s"," ","G","R","O","U","P"," ","B","Y"," ","y","e","a","r"," ","O","R","D","E","R"," ","B","Y"," ","y","e","a","r">>
      [] sql = "SELECT region, AVG(mileage_km) as average_mileage FROM bmw_sales GROUP BY region ORDER BY average_mileage DESC" ->
           <<"S","E","L","E","C","T"," ","r","e","g","i","o","n",","," ","A","V","G","(","m","i","l","e","a","g","e","_","k","m",")"," ","a","s"," ","a","v","e","r","a","g","e","_","m","i","l","e","a","g","e"," ","F","R","O","M"," ","b","m","w","_","s","a","l","e","s"," ","G","R","O","U","P"," ","B","Y"," ","r","e","g","i","o","n"," ","O","R","D","E","R"," ","B","Y"," ","a","v","e","r","a","g","e","_","m","i","l","e","a","g","e"," ","D","E","S","C">>
      [] sql = "SELECT year, TO_CHAR(SUM(price_usd * sales_volume), 'FM999,999,999,999,999') as total_revenue FROM bmw_sales GROUP BY year ORDER BY year" ->
           <<"S","E","L","E","C","T"," ","y","e","a","r",","," ","T","O","_","C","H","A","R","(","S","U","M","(","p","r","i","c","e","_","u","s","d"," ","*"," ","s","a","l","e","s","_","v","o","l","u","m","e",")",","," ","'","F","M","9","9","9",",","9","9","9",",","9","9","9",",","9","9","9",",","9","9","9","'",")"," ","a","s"," ","t","o","t","a","l","_","r","e","v","e","n","u","e"," ","F","R","O","M"," ","b","m","w","_","s","a","l","e","s"," ","G","R","O","U","P"," ","B","Y"," ","y","e","a","r"," ","O","R","D","E","R"," ","B","Y"," ","y","e","a","r">>
      [] sql = "SELECT region, TO_CHAR(SUM(price_usd * sales_volume), 'FM999,999,999,999,999') as total_sales_value FROM bmw_sales GROUP BY region ORDER BY SUM(price_usd * sales_volume) DESC" ->
           <<"S","E","L","E","C","T"," ","r","e","g","i","o","n",","," ","T","O","_","C","H","A","R","(","S","U","M","(","p","r","i","c","e","_","u","s","d"," ","*"," ","s","a","l","e","s","_","v","o","l","u","m","e",")",","," ","'","F","M","9","9","9",",","9","9","9",",","9","9","9",",","9","9","9",",","9","9","9","'",")"," ","a","s"," ","t","o","t","a","l","_","s","a","l","e","s","_","v","a","l","u","e"," ","F","R","O","M"," ","b","m","w","_","s","a","l","e","s"," ","G","R","O","U","P"," ","B","Y"," ","r","e","g","i","o","n"," ","O","R","D","E","R"," ","B","Y"," ","S","U","M","(","p","r","i","c","e","_","u","s","d"," ","*"," ","s","a","l","e","s","_","v","o","l","u","m","e",")"," ","D","E","S","C">>
      [] sql = "SELECT * FROM analytics.kpi_model_performance" ->
           <<"S","E","L","E","C","T"," ","*"," ","F","R","O","M"," ","a","n","a","l","y","t","i","c","s",".","k","p","i","_","m","o","d","e","l","_","p","e","r","f","o","r","m","a","n","c","e">>
      [] sql = "SELECT year, AVG(mileage_km) as average_mileage FROM bmw_sales GROUP BY year ORDER BY year" ->
           <<"S","E","L","E","C","T"," ","y","e","a","r",","," ","A","V","G","(","m","i","l","e","a","g","e","_","k","m",")"," ","a","s"," ","a","v","e","r","a","g","e","_","m","i","l","e","a","g","e"," ","F","R","O","M"," ","b","m","w","_","s","a","l","e","s"," ","G","R","O","U","P"," ","B","Y"," ","y","e","a","r"," ","O","R","D","E","R"," ","B","Y"," ","y","e","a","r">>
      [] sql = "SELECT year, TO_CHAR(SUM(price_usd * sales_volume), 'FM999,999,999,999,999') as total_sales_value FROM bmw_sales GROUP BY year ORDER BY year" ->
           <<"S","E","L","E","C","T"," ","y","e","a","r",","," ","T","O","_","C","H","A","R","(","S","U","M","(","p","r","i","c","e","_","u","s","d"," ","*"," ","s","a","l","e","s","_","v","o","l","u","m","e",")",","," ","'","F","M","9","9","9",",","9","9","9",",","9","9","9",",","9","9","9",",","9","9","9","'",")"," ","a","s"," ","t","o","t","a","l","_","s","a","l","e","s","_","v","a","l","u","e"," ","F","R","O","M"," ","b","m","w","_","s","a","l","e","s"," ","G","R","O","U","P"," ","B","Y"," ","y","e","a","r"," ","O","R","D","E","R"," ","B","Y"," ","y","e","a","r">>
      [] sql = "SELECT * FROM analytics.kpi_color_performance" ->
           <<"S","E","L","E","C","T"," ","*"," ","F","R","O","M"," ","a","n","a","l","y","t","i","c","s",".","k","p","i","_","c","o","l","o","r","_","p","e","r","f","o","r","m","a","n","c","e">>
      [] sql = "SELECT * FROM analytics.kpi_top_10_models LIMIT 10" ->
           <<"S","E","L","E","C","T"," ","*"," ","F","R","O","M"," ","a","n","a","l","y","t","i","c","s",".","k","p","i","_","t","o","p","_","1","0","_","m","o","d","e","l","s"," ","L","I","M","I","T"," ","1","0">>
      [] sql = "SELECT * FROM analytics.kpi_model_efficiency" ->
           <<"S","E","L","E","C","T"," ","*"," ","F","R","O","M"," ","a","n","a","l","y","t","i","c","s",".","k","p","i","_","m","o","d","e","l","_","e","f","f","i","c","i","e","n","c","y">>
      [] sql = "SELECT * FROM analytics.kpi_top_10_models LIMIT 5" ->
           <<"S","E","L","E","C","T"," ","*"," ","F","R","O","M"," ","a","n","a","l","y","t","i","c","s",".","k","p","i","_","t","o","p","_","1","0","_","m","o","d","e","l","s"," ","L","I","M","I","T"," ","5">>
      [] sql = "SELECT * FROM analytics.kpi_top_5_regions" ->
           <<"S","E","L","E","C","T"," ","*"," ","F","R","O","M"," ","a","n","a","l","y","t","i","c","s",".","k","p","i","_","t","o","p","_","5","_","r","e","g","i","o","n","s">>
      [] sql = "SELECT year, COUNT(DISTINCT model) as total_models, SUM(sales_volume) as total_sales FROM bmw_sales GROUP BY year ORDER BY total_sales DESC LIMIT 5" ->
           <<"S","E","L","E","C","T"," ","y","e","a","r",","," ","C","O","U","N","T","(","D","I","S","T","I","N","C","T"," ","m","o","d","e","l",")"," ","a","s"," ","t","o","t","a","l","_","m","o","d","e","l","s",","," ","S","U","M","(","s","a","l","e","s","_","v","o","l","u","m","e",")"," ","a","s"," ","t","o","t","a","l","_","s","a","l","e","s"," ","F","R","O","M"," ","b","m","w","_","s","a","l","e","s"," ","G","R","O","U","P"," ","B","Y"," ","y","e","a","r"," ","O","R","D","E","R"," ","B","Y"," ","t","o","t","a","l","_","s","a","l","e","s"," ","D","E","S","C"," ","L","I","M","I","T"," ","5">>
      [] sql = "SELECT year, COUNT(DISTINCT model) as total_models, SUM(sales_volume) as total_sales FROM bmw_sales GROUP BY year ORDER BY year" ->
           <<"S","E","L","E","C","T"," ","y","e","a","r",","," ","C","O","U","N","T","(","D","I","S","T","I","N","C","T"," ","m","o","d","e","l",")"," ","a","s"," ","t","o","t","a","l","_","m","o","d","e","l","s",","," ","S","U","M","(","s","a","l","e","s","_","v","o","l","u","m","e",")"," ","a","s"," ","t","o","t","a","l","_","s","a","l","e","s"," ","F","R","O","M"," ","b","m","w","_","s","a","l","e","s"," ","G","R","O","U","P"," ","B","Y"," ","y","e","a","r"," ","O","R","D","E","R"," ","B","Y"," ","y","e","a","r">>
      [] sql = "SELECT year, COUNT(DISTINCT model) as total_models, SUM(sales_volume) as total_sales FROM bmw_sales GROUP BY year ORDER BY total_sales DESC LIMIT 1" ->
           <<"S","E","L","E","C","T"," ","y","e","a","r",","," ","C","O","U","N","T","(","D","I","S","T","I","N","C","T"," ","m","o","d","e","l",")"," ","a","s"," ","t","o","t","a","l","_","m","o","d","e","l","s",","," ","S","U","M","(","s","a","l","e","s","_","v","o","l","u","m","e",")"," ","a","s"," ","t","o","t","a","l","_","s","a","l","e","s"," ","F","R","O","M"," ","b","m","w","_","s","a","l","e","s"," ","G","R","O","U","P"," ","B","Y"," ","y","e","a","r"," ","O","R","D","E","R"," ","B","Y"," ","t","o","t","a","l","_","s","a","l","e","s"," ","D","E","S","C"," ","L","I","M","I","T"," ","1">>
      [] sql = "SELECT * FROM analytics.kpi_price_analysis" ->
           <<"S","E","L","E","C","T"," ","*"," ","F","R","O","M"," ","a","n","a","l","y","t","i","c","s",".","k","p","i","_","p","r","i","c","e","_","a","n","a","l","y","s","i","s">>
      [] sql = "SELECT * FROM analytics.kpi_seasonal_analysis" ->
           <<"S","E","L","E","C","T"," ","*"," ","F","R","O","M"," ","a","n","a","l","y","t","i","c","s",".","k","p","i","_","s","e","a","s","o","n","a","l","_","a","n","a","l","y","s","i","s">>
      [] sql = "SELECT * FROM analytics.kpi_top_5_regions LIMIT 10" ->
           <<"S","E","L","E","C","T"," ","*"," ","F","R","O","M"," ","a","n","a","l","y","t","i","c","s",".","k","p","i","_","t","o","p","_","5","_","r","e","g","i","o","n","s"," ","L","I","M","I","T"," ","1","0">>
      [] sql = "SELECT * FROM analytics.kpi_annual_growth" ->
           <<"S","E","L","E","C","T"," ","*"," ","F","R","O","M"," ","a","n","a","l","y","t","i","c","s",".","k","p","i","_","a","n","n","u","a","l","_","g","r","o","w","t","h">>
      [] sql = "SELECT * FROM analytics.kpi_price_volume_correlation" ->
           <<"S","E","L","E","C","T"," ","*"," ","F","R","O","M"," ","a","n","a","l","y","t","i","c","s",".","k","p","i","_","p","r","i","c","e","_","v","o","l","u","m","e","_","c","o","r","r","e","l","a","t","i","o","n">>
      [] sql = "SELECT * FROM analytics.kpi_annual_sales" ->
           <<"S","E","L","E","C","T"," ","*"," ","F","R","O","M"," ","a","n","a","l","y","t","i","c","s",".","k","p","i","_","a","n","n","u","a","l","_","s","a","l","e","s">>
      [] sql = "SELECT * FROM analytics.kpi_top_performers" ->
           <<"S","E","L","E","C","T"," ","*"," ","F","R","O","M"," ","a","n","a","l","y","t","i","c","s",".","k","p","i","_","t","o","p","_","p","e","r","f","o","r","m","e","r","s">>
      [] sql = "SELECT * FROM analytics.kpi_market_penetration" ->
           <<"S","E","L","E","C","T"," ","*"," ","F","R","O","M"," ","a","n","a","l","y","t","i","c","s",".","k","p","i","_","m","a","r","k","e","t","_","p","e","n","e","t","r","a","t","i","o","n">>
      [] sql = "SELECT * FROM analytics.kpi_temporal_trends" ->
           <<"S","E","L","E","C","T"," ","*"," ","F","R","O","M"," ","a","n","a","l","y","t","i","c","s",".","k","p","i","_","t","e","m","p","o","r","a","l","_","t","r","e","n","d","s">>
      [] OTHER -> <<>>


(***************************************************************************)
(* The inputs of a resolution call.                                        *)
(***************************************************************************)
MaxLead == 10

MaxTrail == 2

MaxRows == 2

MaxElapsed == 1

\* n characters that occur in no pattern keyword and no synthesizer keyword.
Pad(n) == [i \in 1..n |-> "#"]

\* Inputs written out: the scenarios of the documentation, degenerate inputs,
\* categories with and without a template, and hits at the 0.3 threshold.
Fixtures == {
    <<"Q","u","a","i","s"," ","s","ã","o"," ","a","s"," ","t","o","p"," ","5"," ","r","e","g","i","õ","e","s","?">>,    \* 'Quais são as top 5 regiões?'
    <<"C","o","n","t","e"," ","o"," ","t","o","t","a","l"," ","d","e"," ","r","e","g","i","s","t","r","o","s">>,    \* 'Conte o total de registros'
    <<"a","s","d","k","j"," ","q","w","e","o","i","u">>,    \* 'asdkj qweoiu'
    <<"Q","u","a","l"," ","a"," ","m","é","d","i","a"," ","d","e"," ","p","r","e","ç","o","s"," ","p","o","r"," ","m","o","d","e","l","o","?">>,    \* 'Qual a média de preços por modelo?'
    <<>>,    \* ''
    <<" "," "," ">>,    \* '   '
    <<" ","\t","\n">>,    \* ' \t\n'
    <<"v","e","n","d","a","s"," ","a","s","i","a">>,    \* 'vendas asia'
    <<"V","e","n","d","a","s"," ","E","u","r","o","p","a">>,    \* 'Vendas Europa'
    <<"q","u","o","t","a"," ","d","e"," ","m","e","r","c","a","d","o">>,    \* 'quota de mercado'
    <<"#","#","#","#","#","#","#","#","#","#","i","8","#","#","#","#","#","#","#","#">>,    \* '##########i8########'
    <<"#","#","#","#","#","#","i","8","#","#">>,    \* '######i8##'
    <<" "," ","S","o","m","a"," ","T","o","t","a","l"," ","d","e"," ","V","e","n","d","a","s"," "," ">>,    \* '  Soma Total de Vendas  '
    <<"r","a","n","k","i","n","g","\n","m","o","d","e","l","o","s">>,    \* 'ranking\nmodelos'
    <<"m","a","i","o","r">>,    \* 'maior'
    <<"c","â","m","b","i","o"," ","a","v","e","r","a","g","e"," ","p","r","e","ç","o","s">>,    \* 'câmbio average preços'
    <<"e","v","o","l","u","ç","ã","o"," ","a","n","u","a","l">>,    \* 'evolução anual'
    <<"c","a","m","b","i","o"," ","o","v","e","r","v","i","e","w"," ","i","-","8">>,    \* 'cambio overview i-8'
    <<"p","a","r","t","i","c","i","p","a","c","a","o"," ","i","-","8"," ","c","a","m","b","i","o">>,    \* 'participacao i-8 cambio'
    <<"p","a","r","t","i","c","i","p","a","ç","ã","o"," ","d","e"," ","m","e","r","c","a","d","o">>,    \* 'participação de mercado'
    <<"c","o","n","t","e"," ","t","o","t","a","l">>,    \* 'conte total'
    <<"A","v","g"," ","m","i","l","e","a","g","e"," ","b","y"," ","m","o","d","e","l">>,    \* 'Avg mileage by model'
    <<"m","é","d","i","a"," ","m","i","l","e","a","g","e"," ","p","o","r"," ","m","o","d","e","l","o">>,    \* 'média mileage por modelo'
    <<"c","o","n","t","e"," ","s","o","m","a">>    \* 'conte soma'
}

Phrases == {
    <<"i","8">>,    \* 'i8'
    <<"v","e","n","d","a","s"," ","a","s","i","a">>,    \* 'vendas asia'
    <<"c","o","n","t","e">>,    \* 'conte'
    <<"q","w","e">>,    \* 'qwe'
    <<"t","o","p"," ","m","o","d","e","l","o","s">>    \* 'top modelos'
}

\* A phrase at every offset up to MaxLead of an input with up to MaxTrail
\* characters after it.
Padded == { Pad(k) \o w \o Pad(m) : k \in 0..MaxLead, m \in 0..MaxTrail, w \in Phrases }

\* The example queries the failure envelope offers, each given back as an input.
SuggestedQueries == { _get_suggestions_improved[i] : i \in DOMAIN _get_suggestions_improved }

Inputs == Fixtures \cup Padded \cup SuggestedQueries

(***************************************************************************)
(* The SQL executor behind _execute_query: psycopg2 and the database.      *)
(***************************************************************************)
RowSets == { [i \in 1..n |-> "row"] : n \in 0..MaxRows }

\* psycopg2.connect fails / cursor.execute fails on the statement.
DbErrors == {"OperationalError", "ProgrammingError"}

\* The classes of the exceptions above; all derive from Exception.
Exceptions == DbErrors \cup {"TypeError"}

\* _execute_query(sql_query): what the call can do, and where it leaves the
\* connection it opened.  psycopg2.connect raises (OperationalError) and there
\* is no connection; or the connection is made and cursor.execute raises
\* (ProgrammingError; TypeError for cursor.execute(None)), the except clause
\* logs and re-raises, and cursor.close() and conn.close() are not reached; or
\* the rows are fetched, cursor and connection are closed, the rows returned.
_execute_query(sql_query) ==
    IF sql_query = None
    THEN { [raised |-> TRUE, error |-> "OperationalError", conn |-> "none"],
           [raised |-> TRUE, error |-> "TypeError", conn |-> "open"] }
    ELSE { [raised |-> FALSE, rows |-> r, conn |-> "closed"] : r \in RowSets }
         \cup { [raised |-> TRUE, error |-> "OperationalError", conn |-> "none"],
                [raised |-> TRUE, error |-> "ProgrammingError", conn |-> "open"] }

(***************************************************************************)
(* _find_matching_query_improved                                           *)
(***************************************************************************)
\* The sum of the two scores, not halved.
Confidence_SumOfScores(match_start, match_length, query_length) ==
    LET position_score == FSub(F1, FDiv(match_start, Max(query_length, 1)))
        length_score   == FDiv(match_length, Max(query_length, 1))
    IN  FAdd(position_score, length_score)

\* position_score, length_score and confidence of a hit.
Confidence(match_start, match_length, query_length) ==
    LET position_score == FSub(F1, FDiv(match_start, Max(query_length, 1)))
        length_score   == FDiv(match_length, Max(query_length, 1))
    IN  FHalf(FAdd(position_score, length_score))

\* if confidence >= best_score: a later hit of equal confidence replaces the earlier.
Better_OrEqual(confidence, best_score) == FGe(confidence, best_score)

\* if confidence > best_score
Better(confidence, best_score) == FGt(confidence, best_score)

\* best_score >= 0.3
AboveThreshold_Inclusive(best_score) == FGe(best_score, F0_3)

\* best_score > 0.3
AboveThreshold(best_score) == FGt(best_score, F0_3)

\* The lookup finds no template, whatever the category.
TemplateOf_Missing(pq, query_type) == None

\* self.predefined_queries.get(query_type)
TemplateOf(pq, query_type) == IF query_type \in DOMAIN pq THEN pq[query_type] ELSE None

\* str.replace(old, new) for one-character old and new.
Replace(s, old, new) == [i \in 1..Len(s) |-> IF s[i] = old THEN new ELSE s[i]]

\* f"Consulta de {query_type.replace('_', ' ')}"
Explanation(query_type) ==
    <<"C","o","n","s","u","l","t","a"," ","d","e"," ">> \o Replace(TypeChars[query_type], "_", " ")

\* The dict built for a hit.
MatchDict(pq, query_type, pattern, query, match, confidence) ==
    [ type        |-> query_type,
      sql         |-> TemplateOf(pq, query_type),
      explanation |-> Explanation(query_type),
      confidence  |-> confidence,
      pattern     |-> pattern,
      match       |-> SubSeq(query, match.start + 1, match.end) ]

\* for pattern in patterns: the inner loop from pattern pi on; best holds
\* best_match and best_score.
RECURSIVE SweepPatterns(_, _, _, _, _, _)
SweepPatterns(pq, query, query_type, patterns, pi, best) ==
    IF pi > Len(patterns) THEN best
    ELSE LET pattern == patterns[pi]
             match   == re_search(pattern, query)
         IN  IF match = NoHit THEN SweepPatterns(pq, query, query_type, patterns, pi + 1, best)
             ELSE LET confidence == Confidence(match.start, match.end - match.start, Len(query))
                  IN  IF Better(confidence, best.best_score)
                      THEN SweepPatterns(pq, query, query_type, patterns, pi + 1,
                               [ best_match |-> MatchDict(pq, query_type, pattern, query, match, confidence),
                                 best_score |-> confidence ])
                      ELSE SweepPatterns(pq, query, query_type, patterns, pi + 1, best)

\* return best_match if best_score > 1.0 else None
MatcherResult_AboveOne(best_match, best_score) ==
    IF FGt(best_score, F1) THEN best_match ELSE NoMatch

\* return best_match if best_score > 0.3 else None
MatcherResult(best_match, best_score) ==
    IF AboveThreshold(best_score) THEN best_match ELSE NoMatch

(***************************************************************************)
(* The agent and one resolution call at a time.                            *)
(***************************************************************************)
VARIABLES
    query_patterns,       \* self.query_patterns
    predefined_queries,   \* self.predefined_queries
    pc,                   \* position in __init__ / process_natural_language_query
    query,                \* the argument of the call
    normalized_query,
    category_index,       \* _find_matching_query_improved: the next category of the outer loop
    best_match,           \* _find_matching_query_improved: best_match
    best_score,           \* _find_matching_query_improved: best_score
    matched_query,
    custom_sql,
    results,
    exc,                  \* the exception being handled, None when there is none
    response,             \* the envelope returned, None until the call returns
    calls,                \* the collaborators called by this request, in order
    peer,                 \* the locals of a second call in progress on the same agent
    handler               \* the MCPHandler: its call in progress and its conversation history

vars == << query_patterns, predefined_queries, pc, query, normalized_query,
           category_index, best_match, best_score,
           matched_query, custom_sql, results, exc, response, calls, peer, handler >>

\* The locals of _find_matching_query_improved.
matcher == << category_index, best_match, best_score >>

agent == << query_patterns, predefined_queries >>

NoResponse == [none |-> TRUE]

\* No call is in progress: the locals of the call hold nothing.
Idle ==
    /\ query = <<>>
    /\ normalized_query = <<>>
    /\ category_index = 0
    /\ best_match = NoMatch
    /\ best_score = F0
    /\ matched_query = NoMatch
    /\ custom_sql = None
    /\ results = <<>>
    /\ exc = None
    /\ response = NoResponse
    /\ calls = <<>>

\* No second call is in progress.
PeerIdle ==
    [ pc               |-> "idle",
      query            |-> <<>>,
      normalized_query |-> <<>>,
      category_index   |-> 0,
      best_match       |-> NoMatch,
      best_score       |-> F0,
      matched_query    |-> NoMatch,
      custom_sql       |-> None,
      results          |-> <<>>,
      exc              |-> None,
      response         |-> NoResponse ]

\* The MCPHandler of mcp_handler.py after __init__: no call of handle_request
\* is in progress and nothing was handled yet.
HandlerIdle ==
    [ pc                   |-> "idle",
      request              |-> None,
      response             |-> None,
      exc                  |-> None,
      requests             |-> 0,       \* the calls of handle_request made so far
      returned             |-> <<>>,    \* what each call since the last clear gave its caller
      conversation_history |-> <<>> ]

Init ==
    /\ pc = "new"
    /\ query_patterns = <<>>
    /\ predefined_queries = <<>>
    /\ Idle
    /\ peer = PeerIdle
    /\ handler = HandlerIdle

\* __init__: the two tables are assigned from their literals; nothing is validated.
Construct ==
    /\ pc = "new"
    /\ query_patterns' = QueryPatterns
    /\ predefined_queries' = PredefinedQueries
    /\ pc' = "idle"
    /\ UNCHANGED << handler, peer, query, normalized_query, matcher, matched_query, custom_sql, results, exc, response, calls >>

\* A caller invokes process_natural_language_query(query).
Call ==
    /\ pc = "idle"
    /\ \E q \in Inputs : query' = q
    /\ pc' = "normalize"
    /\ UNCHANGED << handler, agent, peer, normalized_query, matcher, matched_query, custom_sql, results, exc, response, calls >>

\* normalized_query = query.lower().strip()
Normalize ==
    /\ pc = "normalize"
    /\ normalized_query' = Strip(Lower(query))
    /\ pc' = "match"
    /\ UNCHANGED << handler, agent, peer, query, matcher, matched_query, custom_sql, results, exc, response, calls >>

\* The Synthesizer is run whatever the Matcher returned.
AfterMatch_AlwaysSynthesize(m) == "synthesize"

\* Where the call goes after the Matcher: `if matched_query:`.
AfterMatch(m) == IF m # NoMatch THEN "execute_matched" ELSE "synthesize"

\* self._find_matching_query_improved(normalized_query) is entered:
\* best_match = None, best_score = 0.
FindMatch ==
    /\ pc = "match"
    /\ calls' = Append(calls, [stage |-> "matcher", sql |-> None])
    /\ best_match' = NoMatch
    /\ best_score' = F0
    /\ category_index' = 1
    /\ pc' = "sweep"
    /\ UNCHANGED << handler, agent, peer, query, normalized_query, matched_query, custom_sql, results, exc, response >>

\* One iteration of `for query_type, patterns in self.query_patterns.items()`,
\* with its whole inner loop over the patterns of the category.
SweepCategory ==
    /\ pc = "sweep"
    /\ category_index <= Len(query_patterns)
    /\ LET category == query_patterns[category_index]
           best     == SweepPatterns(predefined_queries, normalized_query, category.type,
                                     category.patterns, 1,
                                     [best_match |-> best_match, best_score |-> best_score])
       IN  /\ best_match' = best.best_match
           /\ best_score' = best.best_score
    /\ category_index' = category_index + 1
    /\ UNCHANGED << handler, agent, peer, pc, query, normalized_query, matched_query, custom_sql, results, exc, response, calls >>

\* The Matcher returns and leaves an entry for the category it looked up in
\* the Template Store (predefined_queries.setdefault instead of .get).
ReturnMatch_StoresTemplate ==
    /\ pc = "sweep"
    /\ category_index > Len(query_patterns)
    /\ matched_query' = MatcherResult(best_match, best_score)
    /\ pc' = AfterMatch(matched_query')
    /\ predefined_queries' =
          IF best_match # NoMatch /\ best_match.type \notin DOMAIN predefined_queries
          THEN [k \in DOMAIN predefined_queries \cup {best_match.type} |->
                   IF k \in DOMAIN predefined_queries THEN predefined_queries[k] ELSE None]
          ELSE predefined_queries
    /\ UNCHANGED << handler, query_patterns, peer, query, normalized_query, matcher, custom_sql, results, exc, response, calls >>

\* The loop is over: _find_matching_query_improved returns, and
\* process_natural_language_query branches on `if matched_query:`.
ReturnMatch ==
    /\ pc = "sweep"
    /\ category_index > Len(query_patterns)
    /\ matched_query' = MatcherResult(best_match, best_score)
    /\ pc' = AfterMatch(matched_query')
    /\ UNCHANGED << handler, agent, peer, query, normalized_query, matcher, custom_sql, results, exc, response, calls >>

\* The executor is run whatever the Synthesizer returned.
AfterSynthesis_AlwaysExecute(sql) == "execute_custom"

\* Where the call goes after the Synthesizer: `if custom_sql:`.
AfterSynthesis(sql) == IF sql # None THEN "execute_custom" ELSE "suggest"

\* custom_sql = self._generate_custom_query_improved(normalized_query)
Synthesize ==
    /\ pc = "synthesize"
    /\ custom_sql' = _generate_custom_query_improved(normalized_query)
    /\ calls' = Append(calls, [stage |-> "synthesizer", sql |-> None])
    /\ pc' = AfterSynthesis(custom_sql')
    /\ UNCHANGED << handler, agent, peer, query, normalized_query, matcher, matched_query, results, exc, response >>

\* except psycopg2.Error as e: only the errors of the database driver are taken.
Catches_DbErrorsOnly(e) == e \in DbErrors

\* except Exception as e: the handler of process_natural_language_query takes
\* every exception of a class derived from Exception.
Catches(e) == e \in Exceptions

\* Where the call goes when the try block raises e: to the handler, or out
\* of the call to the caller.
AfterRaise(e) == IF Catches(e) THEN "except" ELSE "propagated"

\* The two reads of datetime.now() that end an envelope: execution_time and timestamp.
Timings == { t \in (0..MaxElapsed) \X (0..MaxElapsed) : t[1] <= t[2] }

\* The envelope leaves the SQL out: 'sql_query': None.
MatchedResponse_SqlOmitted(q, m, rows, t) ==
    [ success                |-> TRUE,
      natural_language_query |-> q,
      sql_query              |-> None,
      query_type             |-> m.type,
      explanation            |-> m.explanation,
      confidence             |-> m.confidence,
      results                |-> rows,
      row_count              |-> Len(rows),
      execution_time         |-> t[1],
      timestamp              |-> t[2] ]

\* The envelope echoes the query as normalised for the Matcher.
MatchedResponse_EchoesNormalized(q, m, rows, t) ==
    [ success                |-> TRUE,
      natural_language_query |-> Strip(Lower(q)),
      sql_query              |-> m.sql,
      query_type             |-> m.type,
      explanation            |-> m.explanation,
      confidence             |-> m.confidence,
      results                |-> rows,
      row_count              |-> Len(rows),
      execution_time         |-> t[1],
      timestamp              |-> t[2] ]

MatchedResponse(q, m, rows, t) ==
    [ success                |-> TRUE,
      natural_language_query |-> q,
      sql_query              |-> m.sql,
      query_type             |-> m.type,
      explanation            |-> m.explanation,
      confidence             |-> m.confidence,
      results                |-> rows,
      row_count              |-> Len(rows),
      execution_time         |-> t[1],
      timestamp              |-> t[2] ]

\* 'confidence': 1.0 for a synthesized query.
CustomResponse_FullConfidence(q, sql, rows, t) ==
    [ success                |-> TRUE,
      natural_language_query |-> q,
      sql_query              |-> sql,
      query_type             |-> "custom",
      explanation            |-> "Query customizada gerada automaticamente",
      confidence             |-> F1,
      results                |-> rows,
      row_count              |-> Len(rows),
      execution_time         |-> t[1],
      timestamp              |-> t[2] ]

CustomResponse(q, sql, rows, t) ==
    [ success                |-> TRUE,
      natural_language_query |-> q,
      sql_query              |-> sql,
      query_type             |-> "custom",
      explanation            |-> "Query customizada gerada automaticamente",
      confidence             |-> F0_7,
      results                |-> rows,
      row_count              |-> Len(rows),
      execution_time         |-> t[1],
      timestamp              |-> t[2] ]

NoMatchResponse(q, t) ==
    [ success                |-> FALSE,
      natural_language_query |-> q,
      error                  |-> "Não foi possível interpretar a consulta. Tente reformular.",
      suggestions            |-> _get_suggestions_improved,
      execution_time         |-> t[1],
      timestamp              |-> t[2] ]

ErrorResponse(q, e, t) ==
    [ success                |-> FALSE,
      natural_language_query |-> q,
      error                  |-> e,
      execution_time         |-> t[1],
      timestamp              |-> t[2] ]

\* results = self._execute_query(matched_query['sql']) and the success envelope,
\* or the exception it raises.
ExecuteMatched ==
    /\ pc = "execute_matched"
    /\ \E o \in _execute_query(matched_query.sql) :
       /\ calls' = Append(calls, [stage |-> "executor", sql |-> matched_query.sql, conn |-> o.conn])
       /\ \/ /\ ~o.raised
             /\ results' = o.rows
             /\ \E t \in Timings : response' = MatchedResponse(query, matched_query, o.rows, t)
             /\ pc' = "done"
             /\ exc' = exc
          \/ /\ o.raised
             /\ exc' = o.error
             /\ pc' = AfterRaise(o.error)
             /\ UNCHANGED << results, response >>
    /\ UNCHANGED << handler, agent, peer, query, normalized_query, matcher, matched_query, custom_sql >>

\* results = self._execute_query(custom_sql) and the custom envelope, or the
\* exception it raises.
ExecuteCustom ==
    /\ pc = "execute_custom"
    /\ \E o \in _execute_query(custom_sql) :
       /\ calls' = Append(calls, [stage |-> "executor", sql |-> custom_sql, conn |-> o.conn])
       /\ \/ /\ ~o.raised
             /\ results' = o.rows
             /\ \E t \in Timings : response' = CustomResponse(query, custom_sql, o.rows, t)
             /\ pc' = "done"
             /\ exc' = exc
          \/ /\ o.raised
             /\ exc' = o.error
             /\ pc' = AfterRaise(o.error)
             /\ UNCHANGED << results, response >>
    /\ UNCHANGED << handler, agent, peer, query, normalized_query, matcher, matched_query, custom_sql >>

\* Neither stage produced SQL: the envelope with self._get_suggestions_improved().
Suggest ==
    /\ pc = "suggest"
    /\ calls' = Append(calls, [stage |-> "suggestions", sql |-> None])
    /\ \E t \in Timings : response' = NoMatchResponse(query, t)
    /\ pc' = "done"
    /\ UNCHANGED << handler, agent, peer, query, normalized_query, matcher, matched_query, custom_sql, results, exc >>

\* except Exception as e: the envelope built from str(e).
HandleException ==
    /\ pc = "except"
    /\ \E t \in Timings : response' = ErrorResponse(query, exc, t)
    /\ pc' = "done"
    /\ UNCHANGED << handler, agent, peer, query, normalized_query, matcher, matched_query, custom_sql, results, exc, calls >>

\* return response: the caller has the envelope and the call's locals are gone.
Return ==
    /\ pc = "done"
    /\ pc' = "idle"
    /\ query' = <<>>
    /\ normalized_query' = <<>>
    /\ category_index' = 0
    /\ best_match' = NoMatch
    /\ best_score' = F0
    /\ matched_query' = NoMatch
    /\ custom_sql' = None
    /\ results' = <<>>
    /\ exc' = None
    /\ response' = NoResponse
    /\ calls' = <<>>
    /\ UNCHANGED << handler, agent, peer >>

Next ==
    \/ Construct
    \/ Call
    \/ Normalize
    \/ FindMatch
    \/ SweepCategory
    \/ ReturnMatch
    \/ Synthesize
    \/ ExecuteMatched
    \/ ExecuteCustom
    \/ Suggest
    \/ HandleException
    \/ Return

Spec == Init /\ [][Next]_vars

(***************************************************************************)
(* The Synthesizer applied to a normalised query that the Matcher did not  *)
(* resolve: the call from line 386 on, for queries put together from the   *)
(* Synthesizer's keywords.                                                 *)
(***************************************************************************)
\* Nothing, or a word of the Count test.
SynthCountWords == {
    <<>>,    \* ''
    <<"c","o","n","t","e">>,    \* 'conte'
    <<"c","o","u","n","t">>,    \* 'count'
    <<"q","u","a","n","t","o","s">>,    \* 'quantos'
    <<"q","u","a","n","t","a","s">>    \* 'quantas'
}

\* Nothing, or a word of the Sum and Average tests.
SynthAggregateWords == {
    <<>>,    \* ''
    <<"s","o","m","a">>,    \* 'soma'
    <<"s","u","m">>,    \* 'sum'
    <<"t","o","t","a","l">>,    \* 'total'
    <<"m","é","d","i","a">>,    \* 'média'
    <<"a","v","g">>    \* 'avg'
}

\* Nothing, or a metric.
SynthMetricWords == {
    <<>>,    \* ''
    <<"p","r","e","ç","o">>,    \* 'preço'
    <<"v","e","n","d","a","s">>,    \* 'vendas'
    <<"r","e","c","e","i","t","a">>,    \* 'receita'
    <<"v","a","l","o","r">>,    \* 'valor'
    <<"m","i","l","e","a","g","e">>    \* 'mileage'
}

\* Nothing, or a grouping word.
SynthGroupingWords == {
    <<>>,    \* ''
    <<"p","o","r">>,    \* 'por'
    <<"b","y">>    \* 'by'
}

\* Nothing, or a dimension.
SynthDimensionWords == {
    <<>>,    \* ''
    <<"m","o","d","e","l","o">>,    \* 'modelo'
    <<"m","o","d","e","l","s">>,    \* 'models'
    <<"r","e","g","i","ã","o">>,    \* 'região'
    <<"r","e","g","i","o","n","s">>,    \* 'regions'
    <<"p","a","í","s">>,    \* 'país'
    <<"c","o","u","n","t","r","i","e","s">>,    \* 'countries'
    <<"a","n","o">>,    \* 'ano'
    <<"y","e","a","r">>,    \* 'year'
    <<"r","e","g","i","s","t","r","o","s">>    \* 'registros'
}

\* Nothing, or one more word: of the Year and Superlative groups, or a second dimension.
SynthOtherWords == {
    <<>>,    \* ''
    <<"q","u","a","l">>,    \* 'qual'
    <<"m","a","i","o","r">>,    \* 'maior'
    <<"r","e","g","i","õ","e","s">>    \* 'regiões'
}

\* Nothing, or a word of a group whose body can end without a query.
SynthLeadWords == {
    <<>>,    \* ''
    <<"m","é","d","i","a">>,    \* 'média'
    <<"m","e","n","o","r">>,    \* 'menor'
    <<"m","a","i","o","r">>,    \* 'maior'
    <<"m","e","l","h","o","r">>,    \* 'melhor'
    <<"t","o","p"," ","1">>,    \* 'top 1'
    <<"p","e","r","f","o","r","m","a","n","c","e">>,    \* 'performance'
    <<"r","a","n","k","i","n","g">>    \* 'ranking'
}

\* Nothing, or a word of one of the later groups.
SynthLaterWords == {
    <<>>,    \* ''
    <<"m","á","x","i","m","o">>,    \* 'máximo'
    <<"d","e","s","e","m","p","e","n","h","o">>,    \* 'desempenho'
    <<"t","o","p">>,    \* 'top'
    <<"a","n","o">>,    \* 'ano'
    <<"p","r","e","ç","o","s">>,    \* 'preços'
    <<"c","o","r">>,    \* 'cor'
    <<"e","f","i","c","i","ê","n","c","i","a">>,    \* 'eficiência'
    <<"s","a","z","o","n","a","l">>,    \* 'sazonal'
    <<"t","o","p"," ","p","e","r","f","o","r","m","e","r","s">>,    \* 'top performers'
    <<"m","ú","l","t","i","p","l","a","s">>,    \* 'múltiplas'
    <<"m","e","r","c","a","d","o">>,    \* 'mercado'
    <<"t","e","m","p","o","r","a","l">>    \* 'temporal'
}

\* Nothing, or a word of a secondary test.
SynthObjectWords == {
    <<>>,    \* ''
    <<"r","e","g","i","ã","o">>,    \* 'região'
    <<"m","o","d","e","l","o">>,    \* 'modelo'
    <<"p","r","e","ç","o">>,    \* 'preço'
    <<"v","e","n","d","a","s">>    \* 'vendas'
}

\* a and b with a space between them, when neither is empty.
Join(a, b) == IF a = <<>> THEN b ELSE IF b = <<>> THEN a ELSE a \o <<" ">> \o b

SynthInputs ==
    { Join(c, Join(a, Join(m, Join(g, Join(d, o))))) :
        c \in SynthCountWords, a \in SynthAggregateWords, m \in SynthMetricWords,
        g \in SynthGroupingWords, d \in SynthDimensionWords, o \in SynthOtherWords }
    \cup { Join(l, Join(w, o)) : l \in SynthLeadWords, w \in SynthLaterWords, o \in SynthObjectWords }

\* The call has normalised its input and the Matcher has returned None.
SynthInit ==
    /\ query_patterns = QueryPatterns
    /\ predefined_queries = PredefinedQueries
    /\ pc = "synthesize"
    /\ query \in SynthInputs
    /\ normalized_query = query
    /\ category_index = Len(QueryPatterns) + 1
    /\ best_match = NoMatch
    /\ best_score = F0
    /\ matched_query = NoMatch
    /\ custom_sql = None
    /\ results = <<>>
    /\ exc = None
    /\ response = NoResponse
    /\ calls = << [stage |-> "matcher", sql |-> None] >>
    /\ peer = PeerIdle
    /\ handler = HandlerIdle

SynthNext == Synthesize

SynthSpec == SynthInit /\ [][SynthNext]_vars

(***************************************************************************)
(* Two calls in progress on one agent.  The agent is built once and shared *)
(* (st.cache_resource in the web application); each call of                *)
(* process_natural_language_query has its own locals.  The variables of    *)
(* the first call are those above; peer holds the locals of the second.    *)
(* The steps of the two calls interleave in every order.                   *)
(***************************************************************************)
\* The inputs of the two calls.
SharedInputs == {
    <<"t","o","p"," ","m","o","d","e","l","o","s">>,    \* 'top modelos'
    <<"r","a","n","k","i","n","g","\n","m","o","d","e","l","o","s">>,    \* 'ranking\nmodelos'
    <<"c","o","n","t","e"," ","s","o","m","a">>,    \* 'conte soma'
    <<"q","w","e">>    \* 'qwe'
}

\* The variables of the first call.
request == << pc, query, normalized_query, matcher, matched_query, custom_sql, results, exc, response, calls >>

\* A caller invokes process_natural_language_query(query) on the shared agent.
SharedCall ==
    /\ pc = "idle"
    /\ \E q \in SharedInputs : query' = q
    /\ pc' = "normalize"
    /\ UNCHANGED << handler, agent, peer, normalized_query, matcher, matched_query, custom_sql, results, exc, response, calls >>

\* A second caller invokes process_natural_language_query(query) on the agent.
PeerCall ==
    /\ pc # "new"
    /\ peer.pc = "idle"
    /\ \E q \in SharedInputs : peer' = [peer EXCEPT !.query = q, !.pc = "normalize"]
    /\ UNCHANGED << handler, agent, request >>

\* normalized_query = query.lower().strip()
PeerNormalize ==
    /\ peer.pc = "normalize"
    /\ peer' = [peer EXCEPT !.normalized_query = Strip(Lower(peer.query)), !.pc = "match"]
    /\ UNCHANGED << handler, agent, request >>

\* best_match = None, best_score = 0
PeerFindMatch ==
    /\ peer.pc = "match"
    /\ peer' = [peer EXCEPT !.best_match = NoMatch, !.best_score = F0,
                            !.category_index = 1, !.pc = "sweep"]
    /\ UNCHANGED << handler, agent, request >>

\* best_match and best_score are held on the agent, where the first call's are.
PeerBest_OnAgent == [best_match |-> best_match, best_score |-> best_score]

\* best_match and best_score of the second call: locals of its own frame.
PeerBest == [best_match |-> peer.best_match, best_score |-> peer.best_score]

\* One iteration of the outer loop of the second call's Matcher.
PeerSweepCategory ==
    /\ peer.pc = "sweep"
    /\ peer.category_index <= Len(query_patterns)
    /\ LET category == query_patterns[peer.category_index]
           best     == SweepPatterns(predefined_queries, peer.normalized_query, category.type,
                                     category.patterns, 1, PeerBest)
       IN  peer' = [peer EXCEPT !.best_match = best.best_match,
                                !.best_score = best.best_score,
                                !.category_index = peer.category_index + 1]
    /\ UNCHANGED << handler, agent, request >>

\* return best_match if best_score > 0.3 else None, and `if matched_query:`.
PeerReturnMatch ==
    /\ peer.pc = "sweep"
    /\ peer.category_index > Len(query_patterns)
    /\ LET m == MatcherResult(PeerBest.best_match, PeerBest.best_score)
       IN  peer' = [peer EXCEPT !.matched_query = m, !.pc = AfterMatch(m)]
    /\ UNCHANGED << handler, agent, request >>

\* custom_sql = self._generate_custom_query_improved(normalized_query)
PeerSynthesize ==
    /\ peer.pc = "synthesize"
    /\ LET sql == _generate_custom_query_improved(peer.normalized_query)
       IN  peer' = [peer EXCEPT !.custom_sql = sql, !.pc = AfterSynthesis(sql)]
    /\ UNCHANGED << handler, agent, request >>

\* results = self._execute_query(matched_query['sql']) in the second call.
PeerExecuteMatched ==
    /\ peer.pc = "execute_matched"
    /\ \E o \in _execute_query(peer.matched_query.sql) :
          \/ /\ ~o.raised
             /\ \E t \in Timings :
                   peer' = [peer EXCEPT !.results = o.rows,
                                        !.response = MatchedResponse(peer.query, peer.matched_query, o.rows, t),
                                        !.pc = "done"]
          \/ /\ o.raised
             /\ peer' = [peer EXCEPT !.exc = o.error, !.pc = AfterRaise(o.error)]
    /\ UNCHANGED << handler, agent, request >>

\* custom_sql is held on the agent, where the first call's is.
PeerSql_OnAgent == custom_sql

\* custom_sql of the second call: a local of its own frame.
PeerSql == peer.custom_sql

\* results = self._execute_query(custom_sql) in the second call.
PeerExecuteCustom ==
    /\ peer.pc = "execute_custom"
    /\ \E o \in _execute_query(PeerSql) :
          \/ /\ ~o.raised
             /\ \E t \in Timings :
                   peer' = [peer EXCEPT !.results = o.rows,
                                        !.response = CustomResponse(peer.query, PeerSql, o.rows, t),
                                        !.pc = "done"]
          \/ /\ o.raised
             /\ peer' = [peer EXCEPT !.exc = o.error, !.pc = AfterRaise(o.error)]
    /\ UNCHANGED << handler, agent, request >>

\* The second call's envelope with the suggestions.
PeerSuggest ==
    /\ peer.pc = "suggest"
    /\ \E t \in Timings : peer' = [peer EXCEPT !.response = NoMatchResponse(peer.query, t), !.pc = "done"]
    /\ UNCHANGED << handler, agent, request >>

\* except Exception as e, in the second call.
PeerHandleException ==
    /\ peer.pc = "except"
    /\ \E t \in Timings : peer' = [peer EXCEPT !.response = ErrorResponse(peer.query, peer.exc, t), !.pc = "done"]
    /\ UNCHANGED << handler, agent, request >>

\* return response, in the second call.
PeerReturn ==
    /\ peer.pc = "done"
    /\ peer' = PeerIdle
    /\ UNCHANGED << handler, agent, request >>

SharedNext ==
    \/ Construct
    \/ SharedCall
    \/ Normalize
    \/ FindMatch
    \/ SweepCategory
    \/ ReturnMatch
    \/ Synthesize
    \/ ExecuteMatched
    \/ ExecuteCustom
    \/ Suggest
    \/ HandleException
    \/ Return
    \/ PeerCall
    \/ PeerNormalize
    \/ PeerFindMatch
    \/ PeerSweepCategory
    \/ PeerReturnMatch
    \/ PeerSynthesize
    \/ PeerExecuteMatched
    \/ PeerExecuteCustom
    \/ PeerSuggest
    \/ PeerHandleException
    \/ PeerReturn

SharedSpec == Init /\ [][SharedNext]_vars

(***************************************************************************)
(* The Matcher applied to one keyword of the Pattern Library: a call whose *)
(* argument is a literal alternative of one of the patterns.               *)
(***************************************************************************)
\* The literal alternatives of a pattern, over all its .*-separated parts.
PatternKeywords(pattern) ==
    UNION { { pattern[s][a] : a \in DOMAIN pattern[s] } : s \in DOMAIN pattern }

\* The literal alternatives of every pattern of every category.
Keywords ==
    UNION { UNION { PatternKeywords(QueryPatterns[c].patterns[p]) :
                        p \in DOMAIN QueryPatterns[c].patterns } :
            c \in DOMAIN QueryPatterns }

\* The agent is constructed and process_natural_language_query(keyword) is entered.
KeywordInit ==
    /\ query_patterns = QueryPatterns
    /\ predefined_queries = PredefinedQueries
    /\ pc = "normalize"
    /\ query \in Keywords
    /\ normalized_query = <<>>
    /\ category_index = 0
    /\ best_match = NoMatch
    /\ best_score = F0
    /\ matched_query = NoMatch
    /\ custom_sql = None
    /\ results = <<>>
    /\ exc = None
    /\ response = NoResponse
    /\ calls = <<>>
    /\ peer = PeerIdle
    /\ handler = HandlerIdle

\* The call up to the return of the Matcher.
KeywordNext ==
    \/ Normalize
    \/ FindMatch
    \/ SweepCategory
    \/ ReturnMatch

KeywordSpec == KeywordInit /\ [][KeywordNext]_vars

(***************************************************************************)
(* MCPHandler (mcp_handler.py): handle_request and the conversation        *)
(* history.  handle_request and the sub-handlers are coroutines that await *)
(* nothing but each other, so a call runs to its end before the next one   *)
(* starts; the calls of one handler are modelled one at a time.            *)
(***************************************************************************)
MaxRequests == 2

\* The requests the caller of the n-th call can pass, n standing for its
\* 'id' (and marking the call, for an argument that has no 'id'): dictionaries with or without a 'type' and
\* a 'query', the query a text, empty, or a value whose truth test raises
\* (the values of the dictionary are Any); and an argument that is no
\* dictionary at all.
HandlerRequests(n) ==
    { [dict |-> TRUE, id |-> n, type |-> "query", query |-> q] :
          q \in {"text", "", "untestable"} }
    \cup { [dict |-> TRUE, id |-> n, type |-> t, query |-> ""] :
          t \in {"schema", "history", "stats", "other", "unknown"} }
    \cup { [dict |-> FALSE, id |-> n, type |-> "none", query |-> ""] }

\* _create_error_response(request_id, error_message)
_create_error_response(request_id, error_message) ==
    [ id |-> request_id, type |-> "error_response", success |-> FALSE, error |-> error_message ]

\* _handle_query_request(request): the responses it can return, and whether
\* it raises.  `if not query` is outside the try block; the call of
\* sql_agent.query_database and the reads of its result are inside it.
_handle_query_request(req) ==
    IF req.query = "untestable"
    THEN { [raised |-> TRUE, error |-> "ValueError"] }
    ELSE IF req.query = ""
    THEN { [raised |-> FALSE, response |-> _create_error_response(req.id, "No query provided")] }
    ELSE { [raised |-> FALSE,
            response |-> [ id |-> req.id, type |-> "query_response", success |-> ok,
                           error |-> IF ok THEN None ELSE "error" ]] : ok \in BOOLEAN }
         \cup { [raised |-> FALSE, response |-> _create_error_response(req.id, "Exception")] }

\* _handle_schema_request, _handle_history_request, _handle_stats_request:
\* the call of the SQL agent is inside try, and its exception becomes an
\* error response.
_handle_data_request(req, response_type) ==
    { [raised |-> FALSE, response |-> [ id |-> req.id, type |-> response_type, success |-> TRUE, error |-> None ]],
      [raised |-> FALSE, response |-> _create_error_response(req.id, "Exception")] }

\* MCPHandler.__init__: self.conversation_history = []
HandlerInit ==
    /\ Init
    /\ handler = HandlerIdle

\* A caller awaits handle_request(request).
handle_request ==
    /\ handler.pc = "idle"
    /\ handler.requests < MaxRequests
    /\ \E r \in HandlerRequests(handler.requests + 1) :
          handler' = [handler EXCEPT !.pc = "route", !.request = r, !.response = None,
                                     !.exc = None, !.requests = @ + 1]
    /\ UNCHANGED << agent, request, peer >>

\* The try block up to the response: request.get('type', 'unknown'), which
\* raises AttributeError on an argument without get, and the sub-handler of
\* the type, or the error response for an unknown type.
HandlerRoute ==
    /\ handler.pc = "route"
    /\ LET r == handler.request
           outcomes ==
               IF ~r.dict THEN { [raised |-> TRUE, error |-> "AttributeError"] }
               ELSE IF r.type = "query" THEN _handle_query_request(r)
               ELSE IF r.type = "schema" THEN _handle_data_request(r, "schema_response")
               ELSE IF r.type = "history" THEN _handle_data_request(r, "history_response")
               ELSE IF r.type = "stats" THEN _handle_data_request(r, "stats_response")
               ELSE { [raised |-> FALSE,
                       response |-> _create_error_response(r.id, "Unknown request type")] }
       IN  \E o \in outcomes :
              IF o.raised
              THEN handler' = [handler EXCEPT !.pc = "except", !.exc = o.error]
              ELSE handler' = [handler EXCEPT !.pc = "append", !.response = o.response]
    /\ UNCHANGED << agent, request, peer >>

\* The entry of self.conversation_history.append({...}).
HistoryEntry(r, resp) == [ request |-> r, response |-> resp ]

\* self.conversation_history.append({...}); return response
HandlerAppend ==
    /\ handler.pc = "append"
    /\ handler' = [handler EXCEPT
                      !.pc = "idle",
                      !.conversation_history = Append(@, HistoryEntry(handler.request, handler.response)),
                      !.returned = Append(@, [request |-> handler.request, raised |-> FALSE,
                                              response |-> handler.response])]
    /\ UNCHANGED << agent, request, peer >>

\* except Exception as e: return self._create_error_response(request.get('id',
\* 'unknown'), str(e)); request.get raises again when the argument is no
\* dictionary, and that exception leaves handle_request.
HandlerExcept ==
    /\ handler.pc = "except"
    /\ IF handler.request.dict
       THEN handler' = [handler EXCEPT
                           !.pc = "idle",
                           !.response = _create_error_response(handler.request.id, handler.exc),
                           !.returned = Append(@, [request |-> handler.request, raised |-> FALSE,
                                                   response |-> _create_error_response(handler.request.id, handler.exc)])]
       ELSE handler' = [handler EXCEPT
                           !.pc = "idle",
                           !.exc = "AttributeError",
                           !.returned = Append(@, [request |-> handler.request, raised |-> TRUE,
                                                   response |-> None])]
    /\ UNCHANGED << agent, request, peer >>

\* clear_conversation_history(): self.conversation_history = []
clear_conversation_history ==
    /\ handler.pc = "idle"
    /\ handler.returned # <<>>
    /\ handler' = [handler EXCEPT !.conversation_history = <<>>, !.returned = <<>>]
    /\ UNCHANGED << agent, request, peer >>

HandlerNext ==
    \/ handle_request
    \/ HandlerRoute
    \/ HandlerAppend
    \/ HandlerExcept
    \/ clear_conversation_history

HandlerSpec == HandlerInit /\ [][HandlerNext]_vars

(***************************************************************************)
(* Properties of the resolution call.                                      *)
(***************************************************************************)
\* The stages this request has called so far, in order.
Stages == [i \in 1..Len(calls) |-> calls[i].stage]

Invoked(stage) == \E i \in 1..Len(calls) : calls[i].stage = stage

ExecutorCalls == { i \in 1..Len(calls) : calls[i].stage = "executor" }

\* Every hit of every pattern of every category of qp on q, with the offsets
\* of its match and its confidence.
Hits(qp, q) ==
    UNION { { [ ci         |-> c,
                pi         |-> p,
                start      |-> re_search(qp[c].patterns[p], q).start,
                end        |-> re_search(qp[c].patterns[p], q).end,
                confidence |-> Confidence(re_search(qp[c].patterns[p], q).start,
                                          re_search(qp[c].patterns[p], q).end
                                              - re_search(qp[c].patterns[p], q).start,
                                          Len(q)) ]
              : p \in { i \in 1..Len(qp[c].patterns) : re_search(qp[c].patterns[i], q) # NoHit } }
            : c \in 1..Len(qp) }

\* Library order: category order, then pattern order within the category.
Before(h, g) == h.ci < g.ci \/ (h.ci = g.ci /\ h.pi < g.pi)

\* The loops of _find_matching_query_improved are over.
SweepDone == pc = "sweep" /\ category_index > Len(query_patterns)

\* |c - n/d| <= 2^-52 for a float c and integers 0 <= n <= 2 * d, d <= 512:
\* c is the quotient n/d up to the rounding of the float operations.
Near(c, n, d) ==
    LET a    == Norm(c[1] * d, c[2] * d, c[3] * d)
        t    == <<n * Limb, 0, 0>>
        diff == IF FGe(a, t) THEN LimbSub(a, t) ELSE LimbSub(t, a)
    IN  diff[1] = 0 /\ diff[2] = 0 /\ diff[3] <= 256 * d

ScenarioC == <<"a","s","d","k","j"," ","q","w","e","o","i","u">>

\* C1: the Matcher is consulted first and once; the Synthesizer is invoked
\* if and only if the Matcher returned no-match; the Suggestion Generator is
\* invoked if and only if Matcher and Synthesizer both returned nothing; the
\* executor is called at most once, as the last stage, with the SQL of the
\* stage that succeeded.
C1_StageOrder ==
    /\ Len(calls) >= 1 => calls[1].stage = "matcher"
    /\ \A i \in 2..Len(calls) : calls[i].stage # "matcher"
    /\ \A i \in 1..Len(calls) :
          calls[i].stage = "synthesizer" => i = 2 /\ matched_query = NoMatch
    /\ \A i \in 1..Len(calls) :
          calls[i].stage = "suggestions" =>
              /\ i = 3
              /\ calls[2].stage = "synthesizer"
              /\ matched_query = NoMatch
              /\ custom_sql = None
    /\ Cardinality(ExecutorCalls) <= 1
    /\ \A i \in ExecutorCalls :
          /\ i = Len(calls)
          /\ IF matched_query # NoMatch
             THEN i = 2 /\ calls[i].sql = matched_query.sql
             ELSE i = 3 /\ calls[2].stage = "synthesizer" /\ custom_sql # None
                        /\ calls[i].sql = custom_sql
    /\ pc = "done" =>
          /\ Invoked("synthesizer") <=> matched_query = NoMatch
          /\ Invoked("suggestions") <=> (matched_query = NoMatch /\ custom_sql = None)
          /\ Invoked("executor") <=> (matched_query # NoMatch \/ custom_sql # None)

\* A request the Synthesizer resolved: Matcher, Synthesizer, then one executor call.
C1_Witness ==
    /\ pc = "done"
    /\ Stages = <<"matcher", "synthesizer", "executor">>
    /\ calls[3].sql = custom_sql
    /\ response.success

\* C2: when the sweep is over, the hit retained has the greatest confidence
\* of all hits of all patterns of all categories, and of the hits with that
\* confidence it is the first in library order.
C2_BestHitRetained ==
    SweepDone =>
        LET H == Hits(query_patterns, normalized_query)
        IN  IF H = {} THEN best_match = NoMatch
            ELSE /\ best_match # NoMatch
                 /\ \E h \in H :
                       /\ \A g \in H : FGe(h.confidence, g.confidence)
                       /\ \A g \in H : (g # h /\ g.confidence = h.confidence) => Before(h, g)
                       /\ best_match.type = query_patterns[h.ci].type
                       /\ best_match.pattern = query_patterns[h.ci].patterns[h.pi]
                       /\ best_match.confidence = h.confidence
                       /\ best_score = h.confidence

\* Two categories hit with the same, greatest confidence, after an earlier
\* hit of lower confidence or not; the earlier category is the one kept.
C2_Witness ==
    /\ SweepDone
    /\ best_match # NoMatch
    /\ \E h, g \in Hits(query_patterns, normalized_query) :
          /\ h.ci < g.ci
          /\ h.confidence = best_score
          /\ g.confidence = best_score
          /\ best_match.type = query_patterns[h.ci].type

\* C3: the Matcher returns a MatchResult if and only if the greatest
\* confidence of the sweep is strictly greater than 0.3; at 0.3 and below,
\* and with no hit at all, it returns no-match.
C3_ThresholdStrict ==
    pc \in {"execute_matched", "synthesize"} =>
        ( matched_query # NoMatch
            <=> \E h \in Hits(query_patterns, normalized_query) : FGt(h.confidence, F0_3) )

\* A 2-character hit at offset 10 of a 20-character input: the confidence is
\* exactly 0.3 and the Matcher returned no-match.
C3_Witness ==
    /\ pc = "synthesize"
    /\ matched_query = NoMatch
    /\ Len(normalized_query) = 20
    /\ \E h \in Hits(query_patterns, normalized_query) :
          h.start = 10 /\ h.end - h.start = 2 /\ h.confidence = F0_3

\* C4: the confidence of a hit is ((1 - start/L) + length/L) / 2 for
\* L = max(len(query), 1), up to the rounding of the float operations, and
\* lies in [0, 1]; the confidence of a MatchResult returned lies in (0.3, 1],
\* and it is the confidence of the envelope.
C4_ConfidenceRange ==
    LET L == Max(Len(normalized_query), 1)
    IN  /\ (pc = "sweep" /\ best_match # NoMatch) =>
              LET m == re_search(best_match.pattern, normalized_query)
              IN  /\ Near(best_match.confidence, (L - m.start) + (m.end - m.start), 2 * L)
                  /\ FGe(best_match.confidence, F0)
                  /\ FGe(F1, best_match.confidence)
        /\ SweepDone =>
              \A h \in Hits(query_patterns, normalized_query) :
                  /\ Near(h.confidence, (L - h.start) + (h.end - h.start), 2 * L)
                  /\ FGe(h.confidence, F0)
                  /\ FGe(F1, h.confidence)
        /\ matched_query # NoMatch =>
              /\ FGt(matched_query.confidence, F0_3)
              /\ FGe(F1, matched_query.confidence)
        /\ (pc = "done" /\ response.success /\ matched_query # NoMatch) =>
              response.confidence = matched_query.confidence

\* A MatchResult whose confidence is strictly between 0.3 and 1.
C4_Witness ==
    /\ pc = "execute_matched"
    /\ matched_query # NoMatch
    /\ FGt(matched_query.confidence, F0_3)
    /\ FGt(F1, matched_query.confidence)

\* C5: the Matcher never returns a MatchResult without SQL, and the executor
\* is never handed an absent SQL.
C5_MatchHasSql ==
    /\ matched_query # NoMatch => matched_query.sql # None
    /\ \A i \in ExecutorCalls : calls[i].sql # None

\* C6: once the agent is constructed, every category of the Pattern Library
\* has an entry in the Template Store.
C6_TemplatesComplete ==
    pc # "new" =>
        \A c \in 1..Len(query_patterns) : query_patterns[c].type \in DOMAIN predefined_queries

\* C7: when the Matcher and the Synthesizer both return nothing (as they do
\* on "asdkj qweoiu"), the envelope has success = false, the fixed message
\* and a non-empty suggestions list, and the executor was not called.
C7_NoMatchEnvelope ==
    LET Failure == /\ response.success = FALSE
                   /\ response.error = "Não foi possível interpretar a consulta. Tente reformular."
                   /\ "suggestions" \in DOMAIN response
                   /\ Len(response.suggestions) > 0
                   /\ ~Invoked("executor")
    IN  /\ ( /\ pc = "done"
             /\ matched_query = NoMatch
             /\ _generate_custom_query_improved(normalized_query) = None ) => Failure
        /\ (pc = "done" /\ query = ScenarioC) => Failure

\* The call on "asdkj qweoiu" has returned its envelope.
C7_Witness ==
    /\ pc = "done"
    /\ query = ScenarioC
    /\ matched_query = NoMatch
    /\ custom_sql = None
    /\ response.success = FALSE
    /\ Len(response.suggestions) > 0

\* C8: every envelope with success = false has a non-empty suggestions list.
C8_FailureHasSuggestions ==
    (pc = "done" /\ ~response.success) =>
        "suggestions" \in DOMAIN response /\ Len(response.suggestions) > 0

\* C9: the call never lets an exception out to its caller; whatever the
\* executor does, the call goes on to return an envelope, and an executor
\* error becomes an envelope with success = false and the error message.
C9_NoExceptionEscapes ==
    /\ pc # "propagated"
    /\ pc \in {"execute_matched", "execute_custom", "except"} => ENABLED Next
    /\ pc = "done" => response # NoResponse /\ "success" \in DOMAIN response
    /\ (pc = "done" /\ exc # None) =>
          /\ response.success = FALSE
          /\ "error" \in DOMAIN response
          /\ response.error = exc

\* The executor raised and the call returned an envelope with the error.
C9_Witness ==
    /\ pc = "done"
    /\ Invoked("executor")
    /\ exc \in Exceptions
    /\ response.success = FALSE
    /\ response.error = exc

\* C10: every envelope has the fields success, original query, resolved SQL,
\* type label, confidence, explanation and execution time; an envelope with
\* success = false has an error message and a suggestions list as well.
C10_EnvelopeFields ==
    pc = "done" =>
        /\ { "success", "natural_language_query", "sql_query", "query_type",
             "confidence", "explanation", "execution_time" } \subseteq DOMAIN response
        /\ ~response.success => {"error", "suggestions"} \subseteq DOMAIN response

\* C11: when the Matcher succeeds and the executor returns rows, the envelope
\* has success = true, the caller's input as given, the id of the category
\* retained as its type, the Template Store's SQL of that category, the
\* confidence of the MatchResult and the explanation "Consulta de " followed
\* by the category id with each underscore replaced by a space.
C11_MatchedEnvelope ==
    (pc = "done" /\ matched_query # NoMatch /\ exc = None) =>
        LET type == response.query_type
            id   == TypeChars[type]
            said == response.explanation
        IN  /\ response.success = TRUE
            /\ response.natural_language_query = query
            /\ matched_query = best_match
            /\ type = matched_query.type
            /\ \E c \in 1..Len(query_patterns) : query_patterns[c].type = type
            /\ type \in DOMAIN predefined_queries
            /\ response.sql_query = predefined_queries[type]
            /\ response.confidence = matched_query.confidence
            /\ response.results = results
            /\ Len(said) = 12 + Len(id)
            /\ SubSeq(said, 1, 12) = <<"C","o","n","s","u","l","t","a"," ","d","e"," ">>
            /\ \A i \in 1..Len(id) : said[12 + i] = (IF id[i] = "_" THEN " " ELSE id[i])

\* A match on an input that normalisation changes, of a category whose id
\* has an underscore, with rows returned.
C11_Witness ==
    /\ pc = "done"
    /\ matched_query # NoMatch
    /\ exc = None
    /\ response.success
    /\ query # normalized_query
    /\ \E i \in 1..Len(TypeChars[response.query_type]) : TypeChars[response.query_type][i] = "_"
    /\ Len(response.results) > 0

\* C12 as claimed: the confidence of every successful Category match is
\* greater than the 0.7 of a synthesized query.
C12_MatchAboveSynthesized ==
    (pc = "done" /\ response.success /\ matched_query # NoMatch) =>
        FGt(response.confidence, F0_7)

\* C12 as amended: an envelope produced by the Synthesizer has type "custom"
\* and the fixed confidence 0.7, which is above the Matcher's floor 0.3 and
\* below the confidence 1.0 of a match that covers the input; the confidence
\* of a successful Category match is a value in (0.3, 1], above or below 0.7.
C12_SynthesizedConfidenceFixed ==
    (pc = "done" /\ response.success) =>
        IF matched_query = NoMatch
        THEN /\ response.query_type = "custom"
             /\ response.sql_query = custom_sql
             /\ response.confidence = F0_7
             /\ FGt(response.confidence, F0_3)
             /\ FGt(F1, response.confidence)
        ELSE /\ response.query_type # "custom"
             /\ FGt(response.confidence, F0_3)
             /\ FGe(F1, response.confidence)

\* A synthesized query was executed and its envelope returned.
C12_Witness ==
    /\ pc = "done"
    /\ response.success
    /\ matched_query = NoMatch
    /\ response.query_type = "custom"
    /\ response.confidence = F0_7

\* The input consists of whitespace only (or of nothing).
Blank(q) == \A i \in 1..Len(q) : q[i] \in Whitespace

\* C13: on the empty string and on a whitespace-only input the call raises
\* nothing: the input normalises to the empty string, no pattern hits, the
\* Matcher returns no-match, the Synthesizer is invoked and returns nothing,
\* and the envelope is the failure envelope with suggestions.
C13_BlankInput ==
    (pc \notin {"new", "idle"} /\ Blank(query)) =>
        /\ pc # "normalize" => normalized_query = <<>>
        /\ exc = None
        /\ pc \notin {"except", "propagated", "execute_matched", "execute_custom"}
        /\ best_match = NoMatch
        /\ matched_query = NoMatch
        /\ custom_sql = None
        /\ ~Invoked("executor")
        /\ pc = "done" =>
              /\ Stages = <<"matcher", "synthesizer", "suggestions">>
              /\ response.success = FALSE
              /\ "suggestions" \in DOMAIN response
              /\ Len(response.suggestions) > 0

\* The call on a whitespace-only input of some length has returned.
C13_Witness ==
    /\ pc = "done"
    /\ Len(query) > 0
    /\ Blank(query)
    /\ Stages = <<"matcher", "synthesizer", "suggestions">>
    /\ response.success = FALSE

\* C15: no step of a resolution call changes the Pattern Library or the
\* Template Store: from construction on, query_patterns and
\* predefined_queries are the tables __init__ assigned.
C15_TablesNeverChange ==
    pc # "new" =>
        /\ query_patterns = QueryPatterns
        /\ predefined_queries = PredefinedQueries

\* A call that matched a category without a template has gone through the
\* executor's error and returned; the tables are as constructed.
C15_Witness ==
    /\ pc = "done"
    /\ matched_query # NoMatch
    /\ matched_query.type \notin DOMAIN PredefinedQueries
    /\ exc # None
    /\ query_patterns = QueryPatterns
    /\ predefined_queries = PredefinedQueries

(***************************************************************************)
(* Properties of the Synthesizer.                                          *)
(***************************************************************************)
\* The Synthesizer has been applied to normalized_query; custom_sql is its result.
Synthesized == Invoked("synthesizer")

HasCountWord(q) == AnyIn(q, << <<"c","o","n","t","e">>, <<"c","o","u","n","t">>, <<"q","u","a","n","t","o","s">>, <<"q","u","a","n","t","a","s">> >>)

HasSumWord(q) == AnyIn(q, << <<"s","o","m","a">>, <<"s","u","m">> >>)

HasTotalWord(q) == Contains(q, <<"t","o","t","a","l">>)

HasAverageWord(q) == AnyIn(q, << <<"m","é","d","i","a">>, <<"m","e","d","i","a">>, <<"a","v","e","r","a","g","e">>, <<"a","v","g">> >>)

HasYearWord(q) == AnyIn(q, << <<"a","n","o">>, <<"a","n","o","s">>, <<"y","e","a","r">> >>)

\* The text of the SQL has the word in it.
SqlHas(sql, word) == Contains(SqlText(sql), word)

\* C17 as claimed: an input with a count word and no sum, average or total
\* word gets SQL with neither SUM nor AVG; an input with sum, average or
\* total vocabulary and no count word gets SQL with no COUNT.
C17_BranchExclusivity ==
    Synthesized =>
        /\ ( /\ HasCountWord(normalized_query)
             /\ ~HasSumWord(normalized_query)
             /\ ~HasTotalWord(normalized_query)
             /\ ~HasAverageWord(normalized_query) ) =>
                  ~SqlHas(custom_sql, <<"S","U","M">>) /\ ~SqlHas(custom_sql, <<"A","V","G">>)
        /\ ( /\ ( \/ HasSumWord(normalized_query)
                  \/ HasTotalWord(normalized_query)
                  \/ HasAverageWord(normalized_query) )
             /\ ~HasCountWord(normalized_query) ) =>
                  ~SqlHas(custom_sql, <<"C","O","U","N","T">>)

\* C17 as amended: an input with a count word and no sum, average or total
\* word gets a query with neither SUM nor AVG; an input with soma, sum or an
\* average word and no count word gets no COUNT; an input whose only such
\* word is "total" and that has no count word gets a COUNT only from the Year
\* group, whose query has COUNT(DISTINCT model) beside SUM(sales_volume).
C17_BranchExclusivityButYear ==
    Synthesized =>
        /\ ( /\ HasCountWord(normalized_query)
             /\ ~HasSumWord(normalized_query)
             /\ ~HasTotalWord(normalized_query)
             /\ ~HasAverageWord(normalized_query) ) =>
                  /\ custom_sql # None
                  /\ SqlHas(custom_sql, <<"C","O","U","N","T","(">>)
                  /\ ~SqlHas(custom_sql, <<"S","U","M">>)
                  /\ ~SqlHas(custom_sql, <<"A","V","G">>)
        /\ ( /\ (HasSumWord(normalized_query) \/ HasAverageWord(normalized_query))
             /\ ~HasCountWord(normalized_query) ) =>
                  ~SqlHas(custom_sql, <<"C","O","U","N","T">>)
        /\ ( /\ HasTotalWord(normalized_query)
             /\ ~HasSumWord(normalized_query)
             /\ ~HasAverageWord(normalized_query)
             /\ ~HasCountWord(normalized_query)
             /\ SqlHas(custom_sql, <<"C","O","U","N","T">>) ) =>
                  /\ HasYearWord(normalized_query)
                  /\ SqlHas(custom_sql, <<"S","E","L","E","C","T"," ","y","e","a","r",","," ","C","O","U","N","T","(","D","I","S","T","I","N","C","T"," ","m","o","d","e","l",")"," ","a","s"," ","t","o","t","a","l","_","m","o","d","e","l","s",","," ","S","U","M","(","s","a","l","e","s","_","v","o","l","u","m","e",")">>)
                  /\ SqlHas(custom_sql, <<"G","R","O","U","P"," ","B","Y"," ","y","e","a","r">>)

\* A sum word, a year word and no count word: the Sum group's query, without COUNT.
C17_Witness ==
    /\ Synthesized
    /\ HasSumWord(normalized_query)
    /\ HasYearWord(normalized_query)
    /\ ~HasCountWord(normalized_query)
    /\ SqlHas(custom_sql, <<"S","U","M","(","s","a","l","e","s","_","v","o","l","u","m","e",")">>)
    /\ ~SqlHas(custom_sql, <<"C","O","U","N","T">>)

\* C18: an input with a count word and one of soma, sum, total never gets
\* the Count group's result: it is routed to the Sum group and gets a SUM
\* query.
C18_CountWithSumIsSum ==
    ( /\ Synthesized
      /\ HasCountWord(normalized_query)
      /\ (HasSumWord(normalized_query) \/ HasTotalWord(normalized_query)) ) =>
          /\ custom_sql # None
          /\ SqlHas(custom_sql, <<"S","U","M","(">>)
          /\ ~SqlHas(custom_sql, <<"S","E","L","E","C","T"," ","C","O","U","N","T","(">>)

\* C19: an input with a count word and none of soma, sum, total always gets
\* a query, by the first dimension it names in the order region, model,
\* country: COUNT(DISTINCT region), else COUNT(DISTINCT model), else
\* COUNT(DISTINCT country), else COUNT(*).
C19_CountDimension ==
    ( /\ Synthesized
      /\ HasCountWord(normalized_query)
      /\ ~HasSumWord(normalized_query)
      /\ ~HasTotalWord(normalized_query) ) =>
          /\ custom_sql # None
          /\ pc = "execute_custom"
          /\ SqlText(custom_sql) # <<>>
          /\ IF AnyIn(normalized_query, << <<"r","e","g","i","õ","e","s">>, <<"r","e","g","i","ã","o">>, <<"r","e","g","i","o","n","s">> >>)
             THEN SqlHas(custom_sql, <<"S","E","L","E","C","T"," ","C","O","U","N","T","(","D","I","S","T","I","N","C","T"," ","r","e","g","i","o","n",")"," ">>)
             ELSE IF AnyIn(normalized_query, << <<"m","o","d","e","l","o","s">>, <<"m","o","d","e","l","o">>, <<"m","o","d","e","l","s">> >>)
             THEN SqlHas(custom_sql, <<"S","E","L","E","C","T"," ","C","O","U","N","T","(","D","I","S","T","I","N","C","T"," ","m","o","d","e","l",")"," ">>)
             ELSE IF AnyIn(normalized_query, << <<"p","a","í","s","e","s">>, <<"p","a","í","s">>, <<"c","o","u","n","t","r","i","e","s">> >>)
             THEN SqlHas(custom_sql, <<"S","E","L","E","C","T"," ","C","O","U","N","T","(","D","I","S","T","I","N","C","T"," ","c","o","u","n","t","r","y",")"," ">>)
             ELSE SqlHas(custom_sql, <<"S","E","L","E","C","T"," ","C","O","U","N","T","(","*",")"," ">>)

\* A count word with a region and a model: the region count.
C19_Witness ==
    /\ Synthesized
    /\ HasCountWord(normalized_query)
    /\ ~HasSumWord(normalized_query)
    /\ ~HasTotalWord(normalized_query)
    /\ AnyIn(normalized_query, << <<"r","e","g","i","õ","e","s">>, <<"r","e","g","i","ã","o">>, <<"r","e","g","i","o","n","s">> >>)
    /\ AnyIn(normalized_query, << <<"m","o","d","e","l","o","s">>, <<"m","o","d","e","l","o">>, <<"m","o","d","e","l","s">> >>)
    /\ SqlHas(custom_sql, <<"C","O","U","N","T","(","D","I","S","T","I","N","C","T"," ","r","e","g","i","o","n",")">>)

\* C20: in the Average group with a metric, the result is the GROUP BY
\* <dimension> ORDER BY variant exactly when the input has a grouping word
\* ("por" or "by") and a dimension word (model, region or year); otherwise it
\* is the scalar AVG(<metric>) query.
C20_AverageGrouping ==
    ( /\ Synthesized
      /\ ~CountTest(normalized_query)
      /\ HasAverageWord(normalized_query)
      /\ AnyIn(normalized_query, << <<"p","r","e","ç","o">>, <<"p","r","e","c","o">>, <<"p","r","i","c","e">>, <<"v","e","n","d","a","s">>, <<"s","a","l","e","s">>, <<"u","n","i","d","a","d","e","s">>,
                                     <<"r","e","c","e","i","t","a">>, <<"r","e","v","e","n","u","e">>, <<"q","u","i","l","o","m","e","t","r","a","g","e","m">>, <<"m","i","l","e","a","g","e">> >>) ) =>
          /\ custom_sql # None
          /\ SqlHas(custom_sql, <<"A","V","G","(">>)
          /\ ( /\ AnyIn(normalized_query, << <<"p","o","r">>, <<"b","y">> >>)
               /\ AnyIn(normalized_query, << <<"m","o","d","e","l","o">>, <<"m","o","d","e","l">>, <<"r","e","g","i","ã","o">>, <<"r","e","g","i","õ","e","s">>, <<"r","e","g","i","o","n">>,
                                              <<"a","n","o">>, <<"y","e","a","r">> >>) )
               <=> ( /\ SqlHas(custom_sql, <<" ","G","R","O","U","P"," ","B","Y"," ">>)
                     /\ SqlHas(custom_sql, <<" ","O","R","D","E","R"," ","B","Y"," ">>) )

(***************************************************************************)
(* Properties of calls that share the agent.                               *)
(***************************************************************************)
\* An envelope without execution_time and timestamp.
SansTiming(r) == [k \in DOMAIN r \ {"execution_time", "timestamp"} |-> r[k]]

\* C14: two resolutions of one input on the same agent, each anywhere in a
\* sequence of other resolutions, for which the executor does the same,
\* return the same MatchResult or no-match and envelopes that are equal in
\* every field but execution_time and timestamp.
C14_SameInputSameEnvelope ==
    ( /\ pc = "done"
      /\ peer.pc = "done"
      /\ query = peer.query
      /\ results = peer.results
      /\ exc = peer.exc ) =>
          /\ matched_query = peer.matched_query
          /\ custom_sql = peer.custom_sql
          /\ DOMAIN response = DOMAIN peer.response
          /\ SansTiming(response) = SansTiming(peer.response)

\* Both calls have resolved the same input, one by the Synthesizer, with rows
\* from the executor, at different times.
C14_Witness ==
    /\ pc = "done"
    /\ peer.pc = "done"
    /\ query = peer.query
    /\ results = peer.results
    /\ Len(results) > 0
    /\ response.success
    /\ response.query_type = "custom"
    /\ response.timestamp # peer.response.timestamp
    /\ SansTiming(response) = SansTiming(peer.response)

\* What _find_matching_query_improved returns on q when nothing else runs:
\* the hit of greatest confidence, the first in library order, if its
\* confidence is above 0.3.
AloneMatch(q) ==
    LET H   == Hits(query_patterns, q)
        top == { h \in H : \A g \in H : /\ FGe(h.confidence, g.confidence)
                                         /\ (g.confidence = h.confidence /\ g # h) => Before(h, g) }
    IN  IF H = {} THEN NoMatch
        ELSE LET h == CHOOSE h \in top : TRUE
             IN  IF FGt(h.confidence, F0_3)
                 THEN MatchDict(predefined_queries, query_patterns[h.ci].type,
                                query_patterns[h.ci].patterns[h.pi], q,
                                [start |-> h.start, end |-> h.end], h.confidence)
                 ELSE NoMatch

\* The envelopes a call on q returns when the Matcher returned m, the
\* Synthesizer sql, and the executor rows or the exception e (None: none).
EnvelopesOf(q, m, sql, rows, e) ==
    IF e # None THEN { ErrorResponse(q, e, t) : t \in Timings }
    ELSE IF m # NoMatch THEN { MatchedResponse(q, m, rows, t) : t \in Timings }
    ELSE IF sql # None THEN { CustomResponse(q, sql, rows, t) : t \in Timings }
    ELSE { NoMatchResponse(q, t) : t \in Timings }

\* The Matcher has returned to the call at this position.
Decided(p) == p \in {"execute_matched", "synthesize", "execute_custom", "suggest", "except", "done"}

\* What the Matcher returns to each call is what it returns to the call
\* running alone, the synthesized SQL is that of the call's own input, and
\* the envelope is made of the call's own values.
C16_OwnValues ==
    /\ pc \in {"execute_matched", "synthesize"} => matched_query = AloneMatch(normalized_query)
    /\ peer.pc \in {"execute_matched", "synthesize"} =>
          peer.matched_query = AloneMatch(peer.normalized_query)
    /\ Decided(pc) => normalized_query = Strip(Lower(query))
    /\ Decided(peer.pc) => peer.normalized_query = Strip(Lower(peer.query))
    /\ pc \in {"execute_custom", "suggest", "except", "done"} =>
          custom_sql = (IF matched_query = NoMatch
                        THEN _generate_custom_query_improved(normalized_query) ELSE None)
    /\ peer.pc \in {"execute_custom", "suggest", "except", "done"} =>
          peer.custom_sql = (IF peer.matched_query = NoMatch
                             THEN _generate_custom_query_improved(peer.normalized_query) ELSE None)
    /\ pc = "done" => response \in EnvelopesOf(query, matched_query, custom_sql, results, exc)
    /\ peer.pc = "done" =>
          peer.response \in EnvelopesOf(peer.query, peer.matched_query, peer.custom_sql,
                                        peer.results, peer.exc)

\* From the Matcher's return to the call's return, no step of either call
\* changes the input or the MatchResult of a call.
C16_ValuesKept ==
    /\ (Decided(pc) /\ Decided(pc')) =>
          /\ query' = query
          /\ normalized_query' = normalized_query
          /\ matched_query' = matched_query
    /\ (Decided(peer.pc) /\ Decided(peer.pc')) =>
          /\ peer.query' = peer.query
          /\ peer.normalized_query' = peer.normalized_query
          /\ peer.matched_query' = peer.matched_query

\* C16: with the steps of two calls on one agent interleaved in any order,
\* each call gets from the Matcher and returns in its envelope what it gets
\* and returns when it runs alone: no best match, best score or synthesized
\* SQL of one call reaches the other.
C16_InterleavedAsAlone == []C16_OwnValues /\ [][C16_ValuesKept]_vars

\* The second call's Matcher has returned no-match at a moment when the
\* first call, in the middle of its sweep of another input, holds a best match.
C16_Witness ==
    /\ pc = "sweep"
    /\ category_index <= Len(query_patterns)
    /\ best_match # NoMatch
    /\ FGt(best_score, F0_3)
    /\ peer.pc = "synthesize"
    /\ peer.query # query
    /\ peer.matched_query = NoMatch


\* The Count group takes the input: a count word and none of soma, sum, total.
TakenByCount(q) == HasCountWord(q) /\ ~HasSumWord(q) /\ ~HasTotalWord(q)

\* A word of the Sum test's metric list.
HasSumMetricWord(q) == AnyIn(q, << <<"v","e","n","d","a","s">>, <<"s","a","l","e","s">>, <<"u","n","i","d","a","d","e","s">>, <<"r","e","c","e","i","t","a">>, <<"r","e","v","e","n","u","e">> >>)

HasSalesWord(q) == AnyIn(q, << <<"v","e","n","d","a","s">>, <<"s","a","l","e","s">>, <<"u","n","i","d","a","d","e","s">> >>)

HasMoneyWord(q) == AnyIn(q, << <<"r","e","c","e","i","t","a">>, <<"r","e","v","e","n","u","e">>, <<"f","a","t","u","r","a","m","e","n","t","o">>, <<"v","a","l","o","r">>, <<"v","a","l","u","e">>, <<"t","o","t","a","l","_","s","a","l","e","s">> >>)

\* The column the por-plus-dimension tests group by: model before region before year.
GroupingOf(q) ==
    IF ~Contains(q, <<"p","o","r">>) THEN <<>>
    ELSE IF AnyIn(q, << <<"m","o","d","e","l","o">>, <<"m","o","d","e","l","o","s">> >>) THEN <<"m","o","d","e","l">>
    ELSE IF AnyIn(q, << <<"r","e","g","i","ã","o">>, <<"r","e","g","i","õ","e","s">> >>) THEN <<"r","e","g","i","o","n">>
    ELSE IF AnyIn(q, << <<"a","n","o">>, <<"a","n","o","s">> >>) THEN <<"y","e","a","r">>
    ELSE <<>>

\* The SQL is an aggregate SUM statement: a SUM and neither the COUNT of the
\* Year group nor the LIMIT of the Superlative group.
SumShape(sql) == SqlHas(sql, <<"S","U","M","(">>) /\ ~SqlHas(sql, <<"C","O","U","N","T","(">>) /\ ~SqlHas(sql, <<"L","I","M","I","T">>)

\* C21: when neither the Count nor the Average group takes the input, the
\* Synthesizer returns a SUM statement exactly when the input has soma or sum,
\* or total together with vendas/sales/unidades/receita/revenue; that
\* statement sums sales_volume unless a monetary metric (and no sales word) is
\* named, in which case it is TO_CHAR(SUM(price_usd * sales_volume), ...); it
\* is grouped by model, region or year exactly when the input has "por" and
\* the dimension word, as in the Average group.
C21_SumGroup ==
    (Synthesized /\ ~TakenByCount(normalized_query) /\ ~HasAverageWord(normalized_query)) =>
        LET q       == normalized_query
            entered == HasSumWord(q) \/ (HasTotalWord(q) /\ HasSumMetricWord(q))
            g       == GroupingOf(q)
        IN  /\ entered <=> SumShape(custom_sql)
            /\ entered =>
                /\ custom_sql # None
                /\ (HasSalesWord(q) \/ ~HasMoneyWord(q)) =>
                        SqlHas(custom_sql, <<"S","U","M","(","s","a","l","e","s","_","v","o","l","u","m","e",")"," ","a","s"," ","t","o","t","a","l","_","s","a","l","e","s">>)
                /\ (HasMoneyWord(q) /\ ~HasSalesWord(q)) =>
                        SqlHas(custom_sql, <<"T","O","_","C","H","A","R","(","S","U","M","(","p","r","i","c","e","_","u","s","d"," ","*"," ","s","a","l","e","s","_","v","o","l","u","m","e",")",","," ","'","F","M","9","9","9",",","9","9","9",",","9","9","9",",","9","9","9",",","9","9","9","'",")">>)
                /\ SqlHas(custom_sql, <<"p","r","i","c","e","_","u","s","d">>) => SqlHas(custom_sql, <<"T","O","_","C","H","A","R","(">>)
                /\ IF g = <<>>
                   THEN ~SqlHas(custom_sql, <<"G","R","O","U","P"," ","B","Y">>)
                   ELSE /\ SqlHas(custom_sql, <<"G","R","O","U","P"," ","B","Y"," ">> \o g)
                        /\ SqlHas(custom_sql, <<"S","E","L","E","C","T"," ">> \o g \o <<","," ">>)

\* "total receita por região" is taken by the Sum group through total and a
\* metric word, and is answered with the formatted revenue grouped by region.
C21_Witness ==
    /\ Synthesized
    /\ normalized_query = <<"t","o","t","a","l"," ","r","e","c","e","i","t","a"," ","p","o","r"," ","r","e","g","i","ã","o">>
    /\ custom_sql = "SELECT region, TO_CHAR(SUM(price_usd * sales_volume), 'FM999,999,999,999,999') as total_revenue FROM bmw_sales GROUP BY region ORDER BY SUM(price_usd * sales_volume) DESC"

HasMinWord(q) == AnyIn(q, << <<"m","í","n","i","m","o">>, <<"m","i","n","i","m","o">>, <<"m","i","n">>, <<"m","e","n","o","r">> >>)

HasSuperlativeWord(q) == AnyIn(q, << <<"m","a","i","o","r">>, <<"m","e","l","h","o","r">>, <<"t","o","p"," ","1">> >>)

HasRegionWord(q) == AnyIn(q, << <<"r","e","g","i","ã","o">>, <<"r","e","g","i","õ","e","s">> >>)

HasModelWord(q) == AnyIn(q, << <<"m","o","d","e","l","o">>, <<"m","o","d","e","l","o","s">> >>)

\* C22 as claimed: an input with maior, melhor or "top 1" and a dimension word
\* (região/regiões, modelo/modelos), and no count, average, sum, total or
\* minimum word, gets the GROUP BY <dimension> ... ORDER BY SUM(price_usd *
\* sales_volume) DESC LIMIT 1 statement of a dimension it names.
C22_SuperlativeDimension ==
    ( /\ Synthesized
      /\ HasSuperlativeWord(normalized_query)
      /\ HasRegionWord(normalized_query) \/ HasModelWord(normalized_query)
      /\ ~HasCountWord(normalized_query)
      /\ ~HasAverageWord(normalized_query)
      /\ ~HasSumWord(normalized_query)
      /\ ~HasTotalWord(normalized_query)
      /\ ~HasMinWord(normalized_query) ) =>
        \/ /\ HasRegionWord(normalized_query)
           /\ custom_sql = "SELECT region, TO_CHAR(SUM(price_usd * sales_volume), 'FM999,999,999,999,999') as total_revenue FROM bmw_sales GROUP BY region ORDER BY SUM(price_usd * sales_volume) DESC LIMIT 1"
        \/ /\ HasModelWord(normalized_query)
           /\ custom_sql = "SELECT model, TO_CHAR(SUM(price_usd * sales_volume), 'FM999,999,999,999,999') as total_revenue FROM bmw_sales GROUP BY model ORDER BY SUM(price_usd * sales_volume) DESC LIMIT 1"

(***************************************************************************)
(* Properties of the Matcher on single keywords.                           *)
(***************************************************************************)
\* The Matcher has returned to process_natural_language_query.
MatcherReturned == pc \in {"execute_matched", "synthesize"}

\* C23 as claimed: for every category with a pattern, an input that is exactly
\* one literal keyword of one of its patterns is matched with confidence at
\* least 0.3 and the Matcher selects that category.
C23_KeywordSelectsCategory ==
    MatcherReturned =>
        \A c \in DOMAIN query_patterns : \A p \in DOMAIN query_patterns[c].patterns :
            normalized_query \in PatternKeywords(query_patterns[c].patterns[p]) =>
                /\ matched_query # NoMatch
                /\ matched_query.type = query_patterns[c].type
                /\ FGe(matched_query.confidence, F0_3)

\* C23 as amended: for every category, an input that is exactly one literal
\* keyword of one of its patterns that consist of a single group of
\* alternatives (no .* to a second keyword) is matched at offset 0 with
\* confidence at least 0.5 and the Matcher selects that category, with its
\* template.
C23_SoleKeywordSelectsCategory ==
    MatcherReturned =>
        \A c \in DOMAIN query_patterns : \A p \in DOMAIN query_patterns[c].patterns :
            ( /\ Len(query_patterns[c].patterns[p]) = 1
              /\ normalized_query \in PatternKeywords(query_patterns[c].patterns[p]) ) =>
                /\ pc = "execute_matched"
                /\ matched_query # NoMatch
                /\ matched_query.type = query_patterns[c].type
                /\ FGe(matched_query.confidence, FHalf(F1))
                /\ matched_query.sql = TemplateOf(predefined_queries, query_patterns[c].type)

\* "câmbio" alone is a keyword of transmission_performance's one-group pattern
\* and the Matcher has selected that category.
C23_Witness ==
    /\ pc = "execute_matched"
    /\ normalized_query = <<"c","â","m","b","i","o">>
    /\ matched_query # NoMatch
    /\ matched_query.type = "transmission_performance"
    /\ matched_query.confidence = F1

(***************************************************************************)
(* The scenarios of the documentation.                                     *)
(***************************************************************************)
ScenarioA == <<"Q","u","a","i","s"," ","s","ã","o"," ","a","s"," ","t","o","p"," ","5"," ","r","e","g","i","õ","e","s","?">>

\* C24: on "Quais são as top 5 regiões?" the Matcher selects top_regions with
\* confidence above 0.3, no hit scores higher and no other category has a
\* hit at all, and the SQL that is resolved, executed and returned is the
\* top_regions template.
C24_ScenarioA ==
    (query = ScenarioA /\ pc \notin {"normalize", "match", "sweep"}) =>
        /\ matched_query # NoMatch
        /\ matched_query.type = "top_regions"
        /\ FGt(matched_query.confidence, F0_3)
        /\ matched_query.sql = "SELECT * FROM analytics.kpi_top_5_regions"
        /\ \A h \in Hits(query_patterns, normalized_query) :
              /\ ~FGt(h.confidence, matched_query.confidence)
              /\ query_patterns[h.ci].type = "top_regions"
        /\ ~Invoked("synthesizer")
        /\ \A i \in ExecutorCalls : calls[i].sql = "SELECT * FROM analytics.kpi_top_5_regions"
        /\ (pc = "done" /\ response.success) =>
              response.sql_query = "SELECT * FROM analytics.kpi_top_5_regions"

\* The call on Scenario A has returned its envelope with the rows of the template.
C24_Witness ==
    /\ query = ScenarioA
    /\ pc = "done"
    /\ response.success
    /\ response.query_type = "top_regions"
    /\ response.sql_query = "SELECT * FROM analytics.kpi_top_5_regions"
    /\ \E h \in Hits(query_patterns, normalized_query) : h.confidence = response.confidence
    /\ \E h \in Hits(query_patterns, normalized_query) : FGt(response.confidence, h.confidence)

ScenarioB == <<"C","o","n","t","e"," ","o"," ","t","o","t","a","l"," ","d","e"," ","r","e","g","i","s","t","r","o","s">>

\* C25: on "Conte o total de registros" the stage that resolves the input,
\* Matcher or Synthesizer, resolves it to SELECT COUNT(*) as total_records FROM
\* bmw_sales; that statement is the one executed, the call never ends in the
\* envelope with the suggestions, and when the executor returns rows the
\* envelope is a success envelope with that statement.
C25_ScenarioB ==
    query = ScenarioB =>
        /\ pc = "execute_matched" => matched_query.sql = "SELECT COUNT(*) as total_records FROM bmw_sales"
        /\ pc = "execute_custom" => custom_sql = "SELECT COUNT(*) as total_records FROM bmw_sales"
        /\ pc # "suggest"
        /\ ~Invoked("suggestions")
        /\ \A i \in ExecutorCalls : calls[i].sql = "SELECT COUNT(*) as total_records FROM bmw_sales"
        /\ pc = "done" =>
              /\ ExecutorCalls # {}
              /\ exc = None =>
                    /\ response.success
                    /\ response.sql_query = "SELECT COUNT(*) as total_records FROM bmw_sales"
                    /\ response.row_count = Len(response.results)

\* The call on Scenario B has returned the success envelope; the Matcher
\* resolved it (count_total) and the Synthesizer was not asked.
C25_Witness ==
    /\ query = ScenarioB
    /\ pc = "done"
    /\ response.success
    /\ response.sql_query = "SELECT COUNT(*) as total_records FROM bmw_sales"
    /\ response.query_type = "count_total"
    /\ ~Invoked("synthesizer")

ScenarioD == <<"Q","u","a","l"," ","a"," ","m","é","d","i","a"," ","d","e"," ","p","r","e","ç","o","s"," ","p","o","r"," ","m","o","d","e","l","o","?">>

\* C26 as claimed: on "Qual a média de preços por modelo?" the call reaches
\* the Synthesizer, and the SQL executed and returned is the Average group's
\* GROUP BY model statement.
C26_ScenarioD ==
    (query = ScenarioD /\ pc \in {"execute_matched", "execute_custom", "suggest", "except", "done"}) =>
        /\ Invoked("synthesizer")
        /\ custom_sql = "SELECT model, AVG(price_usd) as average_price FROM bmw_sales GROUP BY model ORDER BY average_price DESC"
        /\ \A i \in ExecutorCalls :
              calls[i].sql = "SELECT model, AVG(price_usd) as average_price FROM bmw_sales GROUP BY model ORDER BY average_price DESC"
        /\ (pc = "done" /\ response.success) =>
              response.sql_query = "SELECT model, AVG(price_usd) as average_price FROM bmw_sales GROUP BY model ORDER BY average_price DESC"

(***************************************************************************)
(* The order of the keyword groups.                                       *)
(***************************************************************************)
\* The primary test of the i-th group of the if/elif chain.
GroupTest(i, q) ==
    CASE i = 1 -> CountTest(q)
      [] i = 2 -> AverageTest(q)
      [] i = 3 -> SumTest(q)
      [] i = 4 -> MinTest(q)
      [] i = 5 -> MaxTest(q)
      [] i = 6 -> SuperlativeTest(q)
      [] i = 7 -> PerformanceTest(q)
      [] i = 8 -> RankingTest(q)
      [] i = 9 -> YearTest(q)
      [] i = 10 -> PriceTest(q)
      [] i = 11 -> ColorTest(q)
      [] i = 12 -> EfficiencyTest(q)
      [] i = 13 -> SeasonalTest(q)
      [] i = 14 -> TopPerformersTest(q)
      [] i = 15 -> MarketTest(q)
      [] i = 16 -> TemporalTest(q)

\* What the body of the i-th group returns, None when none of its branches returns.
GroupBody(i, q) ==
    CASE i = 1 -> CountGroup(q)
      [] i = 2 -> AverageGroup(q)
      [] i = 3 -> SumGroup(q)
      [] i = 4 -> MinGroup(q)
      [] i = 5 -> MaxGroup(q)
      [] i = 6 -> SuperlativeGroup(q)
      [] i = 7 -> PerformanceGroup(q)
      [] i = 8 -> RankingGroup(q)
      [] i = 9 -> YearGroup(q)
      [] i = 10 -> PriceGroup(q)
      [] i = 11 -> ColorGroup(q)
      [] i = 12 -> EfficiencyGroup(q)
      [] i = 13 -> SeasonalGroup(q)
      [] i = 14 -> TopPerformersGroup(q)
      [] i = 15 -> MarketGroup(q)
      [] i = 16 -> TemporalGroup(q)

\* Average, Min, Max, Superlative, Performance, Ranking: the groups whose
\* secondary tests have no final else.
OpenEnded == {2, 4, 5, 6, 7, 8}

\* C27: the Synthesizer's result is decided by the first group, in the order
\* Count, Average, Sum, Min, Max, Superlative, Performance, Ranking, Year,
\* Price, Color, Efficiency, Seasonal, Top-performers, Market, Temporal, whose
\* primary test succeeds: it is what that group's body returns, which is
\* no-result when none of its secondary tests matches, whatever a later group
\* would have returned; only the six groups without a final else can end so;
\* and the result is no-result when no primary test succeeds.
C27_FirstGroupDecides ==
    Synthesized =>
        LET q     == normalized_query
            taken == { i \in 1..16 : GroupTest(i, q) }
        IN  IF taken = {}
            THEN custom_sql = None
            ELSE LET first == CHOOSE i \in taken : \A j \in taken : i <= j
                 IN  /\ custom_sql = GroupBody(first, q)
                     /\ custom_sql = None => first \in OpenEnded
                     /\ \A j \in (first + 1)..16 :
                           (GroupTest(j, q) /\ GroupBody(j, q) # GroupBody(first, q)) =>
                               custom_sql # GroupBody(j, q)

\* The Max group took the input for the word maior and found neither a price
\* nor a sales word: no result, although the Superlative group, later in the
\* chain, has a query for the input.
C27_Witness ==
    /\ Synthesized
    /\ custom_sql = None
    /\ \A i \in 1..4 : ~GroupTest(i, normalized_query)
    /\ GroupTest(5, normalized_query)
    /\ GroupTest(6, normalized_query)
    /\ GroupBody(6, normalized_query) # None

(***************************************************************************)
(* The suggestions given back as inputs.                                   *)
(***************************************************************************)
\* C28 as claimed: a call whose input is one of the strings of
\* _get_suggestions_improved() is resolved to SQL by the Matcher or by the
\* Synthesizer, and never ends in the envelope that offers the suggestions.
C28_SuggestionsResolvable ==
    query \in SuggestedQueries =>
        /\ pc # "suggest"
        /\ ~Invoked("suggestions")
        /\ pc = "execute_matched" => matched_query.sql # None
        /\ pc = "execute_custom" => custom_sql # None
        /\ pc = "done" => ExecutorCalls # {}

(***************************************************************************)
(* The connections of the executor.                                        *)
(***************************************************************************)
\* C29 as claimed: every call of _execute_query has, when it returns or
\* raises, closed the connection it opened (or opened none, when connect
\* failed): no connection is left open by a resolution.
C29_ConnectionsClosed ==
    \A i \in ExecutorCalls : calls[i].conn \in {"none", "closed"}

(***************************************************************************)
(* The conversation history of the MCPHandler.                             *)
(***************************************************************************)
\* C30 as claimed: between calls, conversation_history has exactly one entry
\* per call of handle_request made since the last clear, in call order, each
\* with the call's request and the response the call returned, and no call
\* raised.
C30_HistoryComplete ==
    handler.pc = "idle" =>
        /\ Len(handler.conversation_history) = Len(handler.returned)
        /\ \A i \in 1..Len(handler.returned) :
              /\ ~handler.returned[i].raised
              /\ i <= Len(handler.conversation_history) =>
                    /\ handler.conversation_history[i].request = handler.returned[i].request
                    /\ handler.conversation_history[i].response = handler.returned[i].response
=============================================================================
